---- MODULE Spec2Model ----
(***************************************************************************)
(* Model of the delivery-order engine of orcapzh/ana (src-tauri/src):      *)
(*   - data_processor.rs : validate_delivery_data, merge_delivery_data,    *)
(*                         group_by_customer_month, generate_summary and   *)
(*                         their date helpers                              *)
(*   - excel_parser.rs   : extract_delivery_data (metadata scan, header    *)
(*                         locator, row walk) and extract_number           *)
(*   - lib.rs            : process_delivery_orders                         *)
(* Strings the code inspects character by character are kept as TLA+       *)
(* strings in the state and looked at through Chars, their character       *)
(* sequence.                                                               *)
(***************************************************************************)
EXTENDS Integers, Sequences, FiniteSets, TLC

\* ------------------------------------------------------------------ bounds
MaxFiles == 3
MaxRows == 2

\* --------------------------------------------------------------- strings
None == [some |-> FALSE]
Some(v) == [some |-> TRUE, v |-> v]

\* The strings of the model and their characters.  A character outside
\* ASCII is written as its code point ("U5E74"), a line feed as "LF".
CharsOf ==
  ("" :> << >>)
  @@ ("2024-03-15" :> <<"2","0","2","4","-","0","3","-","1","5">>)
  @@ ("2024-02-30" :> <<"2","0","2","4","-","0","2","-","3","0">>)
  @@ ("2024-03-15 08:00:00" :>
        <<"2","0","2","4","-","0","3","-","1","5"," ",
          "0","8",":","0","0",":","0","0">>)
  @@ ("A" :> <<"A">>)
  @@ ("B" :> <<"B">>)
  @@ ("DN-001" :> <<"D","N","-","0","0","1">>)
  @@ ("m" :> <<"m">>)
  @@ ("c" :> <<"c">>)
  @@ ("a.xls" :> <<"a",".","x","l","s">>)
  @@ ("b_2024-03-15.xls" :>
        <<"b","_","2","0","2","4","-","0","3","-","1","5",".","x","l","s">>)
  @@ ("c_2024.3.16.xls" :>
        <<"c","_","2","0","2","4",".","3",".","1","6",".","x","l","s">>)
  @@ ("steel" :> <<"s", "t", "e", "e", "l">>)
  @@ ("160*1000{U7C73}" :> <<"1", "6", "0", "*", "1", "0", "0", "0", "U7C73">>)
  @@ ("{U94A2}{U7BA1}" :> <<"U94A2", "U7BA1">>)
  @@ ("{U8D27}{U540D}" :> <<"U8D27", "U540D">>)
  @@ ("{U6570}{U91CF}" :> <<"U6570", "U91CF">>)
  @@ ("{U5408}{U8BA1}" :> <<"U5408", "U8BA1">>)
  @@ ("{U9001}{U8D27}{U5355}{U4F4D}" :> <<"U9001", "U8D27", "U5355", "U4F4D">>)
  @@ ("{QUOTE}{LF}" :> <<"QUOTE", "LF">>)
  @@ ("{U8BA2}{U5355}{U53F7}:PO1" :> <<"U8BA2", "U5355", "U53F7", ":", "P", "O", "1">>)
  @@ ("1-2" :> <<"1", "-", "2">>)
  @@ ("{U91D1}{U989D}" :> <<"U91D1", "U989D">>)
  @@ ("kg" :> <<"k", "g">>)
  @@ ("{U5BA2}{U6237}:A" :> <<"U5BA2", "U6237", ":", "A">>)
  @@ ("{U5BA2}{U6237}" :> <<"U5BA2", "U6237">>)
  @@ ("B " :> <<"B", " ">>)
  @@ ("{U65E5}{U671F}" :> <<"U65E5", "U671F">>)
  @@ ("{U65E5}{U671F}{UFF1A}2024/3/5" :> <<"U65E5", "U671F", "UFF1A", "2", "0", "2", "4", "/", "3", "/", "5">>)
  @@ ("No.DN-7" :> <<"N", "o", ".", "D", "N", "-", "7">>)
  @@ ("{U5355}{U53F7}" :> <<"U5355", "U53F7">>)
  @@ ("{U8BA2}{U5355}{U53F7}:PO2" :> <<"U8BA2", "U5355", "U53F7", ":", "P", "O", "2">>)
  @@ ("{U8BA2}{U5355}{U53F7}" :> <<"U8BA2", "U5355", "U53F7">>)
  @@ ("x" :> <<"x">>)
  @@ (", " :> <<",", " ">>)
  @@ ("2024/04/01" :> <<"2", "0", "2", "4", "/", "0", "4", "/", "0", "1">>)
  @@ ("24-3-5" :> <<"2", "4", "-", "3", "-", "5">>)
  @@ ("2024-13-45" :> <<"2", "0", "2", "4", "-", "1", "3", "-", "4", "5">>)
  @@ ("a-b-c" :> <<"a", "-", "b", "-", "c">>)
  @@ ("2024-03" :> <<"2", "0", "2", "4", "-", "0", "3">>)

Chars(s) == CharsOf[s]

Digits == {"0","1","2","3","4","5","6","7","8","9"}

DigitVal(c) ==
  CASE c = "0" -> 0 [] c = "1" -> 1 [] c = "2" -> 2 [] c = "3" -> 3
    [] c = "4" -> 4 [] c = "5" -> 5 [] c = "6" -> 6 [] c = "7" -> 7
    [] c = "8" -> 8 [] c = "9" -> 9

\* Number of leading digits of cs from position i (1-based), at most maxw.
RECURSIVE DigitRun(_, _, _)
DigitRun(cs, i, maxw) ==
  IF maxw = 0 \/ i > Len(cs) \/ cs[i] \notin Digits THEN 0
  ELSE 1 + DigitRun(cs, i + 1, maxw - 1)

\* Decimal value of the w digits of cs starting at position i.
RECURSIVE DigitsValue(_, _, _)
DigitsValue(cs, i, w) ==
  IF w = 0 THEN 0
  ELSE DigitsValue(cs, i, w - 1) * 10 + DigitVal(cs[i + w - 1])

\* ----------------------------------------------------------------- dates
IsLeap(y) == (y % 4 = 0 /\ y % 100 # 0) \/ y % 400 = 0

DaysInMonth(y, m) ==
  IF m = 2 THEN (IF IsLeap(y) THEN 29 ELSE 28)
  ELSE IF m \in {4, 6, 9, 11} THEN 30 ELSE 31

\* chrono::NaiveDate::from_ymd_opt
from_ymd_opt(y, m, d) ==
  IF m >= 1 /\ m <= 12 /\ d >= 1 /\ d <= DaysInMonth(y, m)
  THEN Some(<<y, m, d>>) ELSE None

\* chrono::NaiveDate::parse_from_str for a format "%Y<sep1>%m<sep2>%d<tail>":
\* the year takes up to 4 digits, month and day 1 or 2, the literals must
\* match, nothing may follow, and the date must exist.
ParseYMD(cs, sep1, sep2, tail) ==
  LET wy == DigitRun(cs, 1, 4)
      p1 == 1 + wy
      wm == DigitRun(cs, p1 + 1, 2)
      p2 == p1 + 1 + wm
      wd == DigitRun(cs, p2 + 1, 2)
      p3 == p2 + 1 + wd
      tl == Len(tail)
  IN IF /\ wy >= 1
        /\ p1 <= Len(cs) /\ cs[p1] = sep1
        /\ wm >= 1
        /\ p2 <= Len(cs) /\ cs[p2] = sep2
        /\ wd >= 1
        /\ Len(cs) = p3 - 1 + tl
        /\ \A k \in 1..tl : cs[p3 - 1 + k] = tail[k]
     THEN from_ymd_opt(DigitsValue(cs, 1, wy), DigitsValue(cs, p1 + 1, wm),
                       DigitsValue(cs, p2 + 1, wd))
     ELSE None

\* The three formats of parse_date / validate_date_str, tried in order.  A
\* character outside ASCII is written as its code point: "U5E74" (year),
\* "U6708" (month), "U65E5" (day).
ParseAccepted(cs) ==
  LET a == ParseYMD(cs, "-", "-", << >>)
      b == ParseYMD(cs, "/", "/", << >>)
      c == ParseYMD(cs, "U5E74", "U6708", <<"U65E5">>)
  IN IF a.some THEN a ELSE IF b.some THEN b ELSE c

parse_date(date_str) == ParseAccepted(Chars(date_str))

\* TRUE stands for Ok(()), FALSE for the Err.
validate_date_str(date_str) == ParseAccepted(Chars(date_str)).some

\* Regex (\d{4})[-.](\d{1,2})[-.](\d{1,2}) tried at position i of cs; the two
\* short groups are greedy, and the month gives a digit back when the
\* separator does not follow.
RegexAt(cs, i) ==
  LET seps == {"-", "."}
      wmMax == DigitRun(cs, i + 5, 2)
      okm(w) == /\ w >= 1 /\ w <= wmMax
                /\ i + 5 + w <= Len(cs) /\ cs[i + 5 + w] \in seps
                /\ DigitRun(cs, i + 6 + w, 2) >= 1
      wm == IF okm(2) THEN 2 ELSE IF okm(1) THEN 1 ELSE 0
      wd == DigitRun(cs, i + 6 + wm, 2)
  IN IF /\ DigitRun(cs, i, 4) = 4
        /\ i + 4 <= Len(cs) /\ cs[i + 4] \in seps
        /\ wm >= 1
     THEN Some(<<DigitsValue(cs, i, 4), DigitsValue(cs, i + 5, wm),
                 DigitsValue(cs, i + 6 + wm, wd)>>)
     ELSE None

RECURSIVE RegexFrom(_, _)
RegexFrom(cs, i) ==
  IF i > Len(cs) THEN None
  ELSE IF RegexAt(cs, i).some THEN RegexAt(cs, i) ELSE RegexFrom(cs, i + 1)

extract_date_from_filename(filename) ==
  LET caps == RegexFrom(Chars(filename), 1)
  IN IF caps.some THEN from_ymd_opt(caps.v[1], caps.v[2], caps.v[3]) ELSE None

\* ------------------------------------------------------- string ordering
\* The characters of the model in byte order (UTF-8 order is code point
\* order): String::cmp compares byte by byte.
CharOrder ==
  <<" ", "'", ")", "-", ".", "/", "0", "1", "2", "3", "4", "5", "6", "7", "8", "9", ":",
    "A", "B", "D", "N", "_", "a", "b", "c", "l", "m", "s", "x",
    "U4E0D", "U65E5", "U671F", "U89E3", "U8BE5", "U9001", "U9519">>

CharRankOf ==
  [c \in { CharOrder[i] : i \in 1..Len(CharOrder) } |->
     CHOOSE i \in 1..Len(CharOrder) : CharOrder[i] = c]

CharRank(c) == CharRankOf[c]

\* a.cmp(b) on strings given as character sequences: -1, 0 or 1.
RECURSIVE StrCmp(_, _)
StrCmp(a, b) ==
  IF a = << >> /\ b = << >> THEN 0
  ELSE IF a = << >> THEN -1
  ELSE IF b = << >> THEN 1
  ELSE IF CharRank(Head(a)) < CharRank(Head(b)) THEN -1
  ELSE IF CharRank(Head(a)) > CharRank(Head(b)) THEN 1
  ELSE StrCmp(Tail(a), Tail(b))

DigitChar(n) ==
  CASE n = 0 -> "0" [] n = 1 -> "1" [] n = 2 -> "2" [] n = 3 -> "3"
    [] n = 4 -> "4" [] n = 5 -> "5" [] n = 6 -> "6" [] n = 7 -> "7"
    [] n = 8 -> "8" [] n = 9 -> "9"

\* Display of a chrono::NaiveDate: YYYY-MM-DD, zero padded.
FormatDate(d) ==
  <<DigitChar((d[1] \div 1000) % 10), DigitChar((d[1] \div 100) % 10),
    DigitChar((d[1] \div 10) % 10), DigitChar(d[1] % 10), "-",
    DigitChar(d[2] \div 10), DigitChar(d[2] % 10), "-",
    DigitChar(d[3] \div 10), DigitChar(d[3] % 10)>>

\* ------------------------------------------------------------ the inputs
\* A path is its directory (the customer type) and its file name.
Paths ==
  { [dir |-> "m", name |-> "b_2024-03-15.xls"],
    [dir |-> "m", name |-> "a.xls"],
    [dir |-> "c", name |-> "c_2024.3.16.xls"] }

\* file.to_string_lossy()
PathChars(p) == Chars(p.dir) \o <<"/">> \o Chars(p.name)

\* file.file_name(), and the last component of a split on '/' and '\'
file_name(p) == p.name

Customers == {"A", "B"}
DateStrs == {"2024-03-15", "2024-02-30"}
OrderNos == {"", "DN-001"}

\* models.rs DeliveryItem, the fields the reconciliation and the grouping read;
\* customer, date and delivery_order_no are stamped uniformly on the rows of
\* one file, line is the position of the row among the rows emitted.
DeliveryItem(p, line, customer, date_str, dno) ==
  [source_file |-> p, customer_type |-> p.dir, line |-> line,
   customer |-> customer, date |-> date_str, delivery_order_no |-> dno]

\* What extract_delivery_data returns for a file: Err(cause), or Ok(items)
\* with 0..MaxRows items.
ExtractErr == [ok |-> FALSE, items |-> << >>]

ExtractOk(p, n, customer, date_str, dno) ==
  [ok |-> TRUE,
   items |-> [k \in 1..n |-> DeliveryItem(p, k, customer, date_str, dno)]]

ExtractResults(p) ==
  {ExtractErr, ExtractOk(p, 0, "", "", "")} \cup
  { ExtractOk(p, n, cu, d, no) :
      n \in 1..MaxRows, cu \in Customers, d \in DateStrs, no \in OrderNos }

\* ------------------------------------------------------ validation issues
\* models.rs FileValidationError {file, error}.  The error text is kept as
\* the message template with its arguments; MsgChars renders what decides
\* the order of two texts: the first character of the template (U+89E3 for
\* a parse failure, U+65E5 for the two date messages, U+8BE5 for the empty
\* file, U+9001 for the duplicate) and the arguments with the literal that
\* closes each.
ParseFailedMsg == [kind |-> "parse_failed"]
DateErrorMsg(date_str) == [kind |-> "date_error", date |-> date_str]
EmptyFileMsg == [kind |-> "no_valid_data"]
DateMismatchMsg(f_date, c_date) ==
  [kind |-> "date_mismatch", f_date |-> f_date, c_date |-> c_date]
DuplicateMsg(customer, order_no, existing) ==
  [kind |-> "duplicate_order_no", customer |-> customer,
   order_no |-> order_no, existing |-> existing]

MsgChars(m) ==
  CASE m.kind = "parse_failed" -> <<"U89E3">>
    [] m.kind = "date_error" -> <<"U65E5", "U671F", "U9519">> \o Chars(m.date)
    [] m.kind = "no_valid_data" -> <<"U8BE5">>
    [] m.kind = "date_mismatch" ->
         <<"U65E5", "U671F", "U4E0D">> \o FormatDate(m.f_date) \o <<")">>
           \o FormatDate(m.c_date)
    [] m.kind = "duplicate_order_no" ->
         <<"U9001">> \o Chars(m.customer) \o <<"'">> \o Chars(m.order_no)
           \o <<"'">> \o Chars(m.existing)

Issue(file, msg) == [file |-> file, error |-> msg]

\* a.file.cmp(&b.file).then(a.error.cmp(&b.error))
IssueCmp(a, b) ==
  LET c == StrCmp(PathChars(a.file), PathChars(b.file))
  IN IF c # 0 THEN c ELSE StrCmp(MsgChars(a.error), MsgChars(b.error))

\* Vec::sort_by is a stable sort: x goes behind every element that is not
\* greater than it.
RECURSIVE InsertSorted(_, _)
InsertSorted(sorted, x) ==
  IF sorted = << >> THEN <<x>>
  ELSE IF IssueCmp(x, Head(sorted)) < 0 THEN <<x>> \o sorted
  ELSE <<Head(sorted)>> \o InsertSorted(Tail(sorted), x)

RECURSIVE SortedPrefix(_, _)
SortedPrefix(ws, n) ==
  IF n = 0 THEN << >> ELSE InsertSorted(SortedPrefix(ws, n - 1), ws[n])

NoSort(ws) == ws

sort_by(ws) == SortedPrefix(ws, Len(ws))

\* Vec::dedup_by with a.file == b.file && a.error == b.error: an element
\* equal to the one kept before it is removed.
RECURSIVE DedupPrefix(_, _)
DedupPrefix(ws, n) ==
  IF n = 0 THEN << >>
  ELSE LET d == DedupPrefix(ws, n - 1)
       IN IF d # << >> /\ d[Len(d)].file = ws[n].file
                       /\ d[Len(d)].error = ws[n].error
          THEN d ELSE Append(d, ws[n])

dedup_by(ws) == DedupPrefix(ws, Len(ws))

\* ------------------------------------------------ validate_delivery_data
VARIABLES
  files,         \* the input list read so far: <<[path, result]>>
  all_items,     \* accepted records
  errors,        \* error issues, in the order raised
  warnings,      \* warning issues
  order_no_map,  \* (customer, order_no) -> file that first produced it
  pc,            \* "loop", "done", "merged", "grouped"
  merged,        \* all_items of merge_delivery_data
  merge_idx,     \* files merged so far
  groups,        \* result of group_by_customer_month
  summary,       \* result of generate_summary
  \* extract_delivery_data on one sheet:
  sheet,           \* range.rows(): rows of equal width, row 0 first
  x_pc,            \* "idle", "meta", "header", "walk", "done"
  scan_idx,        \* index of the next row of the metadata scan
  customer_name,
  date,
  delivery_order_no,
  col_map,         \* label family -> column index
  data_start_row,
  row_idx,         \* index of the next row of the walk
  header_order_no,
  items,           \* records emitted so far
  emitted_from,    \* for each record, the index of the row it came from
  \* extract_number on one text cell:
  number_text,     \* the characters of the cell
  number,          \* the Option<f64> returned
  \* scan_and_validate:
  scan_result      \* None until it returns, then Some of its outcome

vvars == <<files, all_items, errors, warnings, order_no_map>>
pvars == <<merged, merge_idx, groups, summary>>
xvars == <<sheet, x_pc, col_map, data_start_row, row_idx, header_order_no,
           items, emitted_from>>
mvars == <<scan_idx, customer_name, date, delivery_order_no>>
nvars == <<number_text, number>>
rvars == <<scan_result>>

\* Validation state threaded through the rows of one file.
VState(e, w, m, h) ==
  [errors |-> e, warnings |-> w, order_no_map |-> m, file_has_error |-> h]

\* Lines 117-135: the date of one record.
DateCheckRejecting(st, item, file, file_date) ==
  IF ~validate_date_str(item.date)
  THEN [st EXCEPT !.errors = Append(@, Issue(file, DateErrorMsg(item.date))),
                  !.file_has_error = TRUE]
  ELSE IF /\ file_date.some
          /\ parse_date(item.date).some
          /\ file_date.v # parse_date(item.date).v
       THEN [st EXCEPT !.warnings =
               Append(@, Issue(file,
                 DateMismatchMsg(file_date.v, parse_date(item.date).v))),
                       !.file_has_error = TRUE]
       ELSE st

DateCheck(st, item, file, file_date) ==
  IF ~validate_date_str(item.date)
  THEN [st EXCEPT !.errors = Append(@, Issue(file, DateErrorMsg(item.date))),
                  !.file_has_error = TRUE]
  ELSE IF /\ file_date.some
          /\ parse_date(item.date).some
          /\ file_date.v # parse_date(item.date).v
       THEN [st EXCEPT !.warnings =
               Append(@, Issue(file,
                 DateMismatchMsg(file_date.v, parse_date(item.date).v)))]
       ELSE st

\* Line 139: the key of the duplicate check.
order_key(item) == <<item.customer, item.delivery_order_no>>

\* Line 142: the duplicate is reported only against another file.
AnyFile(existing_file, current_file) == TRUE

OtherFile(existing_file, current_file) == existing_file # current_file

\* HashMap::insert
MapInsert(m, k, v) == [x \in DOMAIN m \cup {k} |-> IF x = k THEN v ELSE m[x]]

\* A variant whose map follows the latest file instead of the first.
DupCheckLastSeen(st, item, file) ==
  IF item.delivery_order_no = "" THEN st
  ELSE LET key == order_key(item)
       IN IF key \in DOMAIN st.order_no_map
          THEN IF OtherFile(st.order_no_map[key], file)
               THEN [st EXCEPT !.warnings =
                       Append(@, Issue(file,
                         DuplicateMsg(item.customer, key[2],
                                      file_name(st.order_no_map[key])))),
                     !.order_no_map = MapInsert(@, key, file)]
               ELSE st
          ELSE [st EXCEPT !.order_no_map = MapInsert(@, key, file)]

\* Lines 138-152: the delivery order number of one record.
DupCheck(st, item, file) ==
  IF item.delivery_order_no = "" THEN st
  ELSE LET key == order_key(item)
       IN IF key \in DOMAIN st.order_no_map
          THEN IF OtherFile(st.order_no_map[key], file)
               THEN [st EXCEPT !.warnings =
                       Append(@, Issue(file,
                         DuplicateMsg(item.customer, key[2],
                                      file_name(st.order_no_map[key]))))]
               ELSE st
          ELSE [st EXCEPT !.order_no_map = MapInsert(@, key, file)]

\* Lines 115-153: the loop over the records of a file.
RECURSIVE ValidateItems(_, _, _, _, _)
ValidateItems(st, batch, k, file, file_date) ==
  IF k > Len(batch) THEN st
  ELSE ValidateItems(DupCheck(DateCheck(st, batch[k], file, file_date),
                              batch[k], file),
                     batch, k + 1, file, file_date)

\* Lines 155-157: the batch of a file joins the accepted records.
AcceptAlways(acc, batch, file_has_error) == acc \o batch

AcceptBatch(acc, batch, file_has_error) ==
  IF ~file_has_error THEN acc \o batch ELSE acc

\* Lines 160-165: the extraction failed.
ParseFailedTwice(errs, file) ==
  errs \o <<Issue(file, ParseFailedMsg), Issue(file, ParseFailedMsg)>>

ParseFailed(errs, file) == Append(errs, Issue(file, ParseFailedMsg))

\* Lines 103-108: the extraction gave no record.
EmptyFileAsError(st, file) ==
  [st EXCEPT !.errors = Append(@, Issue(file, EmptyFileMsg))]

EmptyFile(st, file) ==
  [st EXCEPT !.warnings = Append(@, Issue(file, EmptyFileMsg))]

\* Lines 101-166: one turn of the loop over the files.
ValidateOne(st, acc, file, result) ==
  IF ~result.ok
  THEN [st |-> [st EXCEPT !.errors = ParseFailed(@, file)], acc |-> acc]
  ELSE IF result.items = << >>
  THEN [st |-> EmptyFile(st, file), acc |-> acc]
  ELSE LET st0 == [st EXCEPT !.file_has_error = FALSE]
           st1 == ValidateItems(st0, result.items, 1, file,
                                extract_date_from_filename(file_name(file)))
       IN [st |-> st1,
           acc |-> AcceptBatch(acc, result.items, st1.file_has_error)]

UsedPaths == { files[i].path : i \in 1..Len(files) }

\* The next (file, customer_type) of the input and its extraction.
ValidateFile ==
  /\ pc = "loop"
  /\ Len(files) < MaxFiles
  /\ \E p \in Paths \ UsedPaths :
       \E r \in ExtractResults(p) :
         LET out == ValidateOne(VState(errors, warnings, order_no_map, FALSE),
                                all_items, p, r)
         IN /\ files' = Append(files, [path |-> p, result |-> r])
            /\ all_items' = out.acc
            /\ errors' = out.st.errors
            /\ warnings' = out.st.warnings
            /\ order_no_map' = out.st.order_no_map
  /\ UNCHANGED <<pc, pvars, xvars, mvars, nvars, rvars>>

\* Lines 169-173: the input is exhausted; the warnings are sorted and
\* deduplicated and the triple is returned.
ValidateReturn ==
  /\ pc = "loop"
  /\ warnings' = dedup_by(sort_by(warnings))
  /\ pc' = "done"
  /\ UNCHANGED <<files, all_items, errors, order_no_map, pvars, xvars, mvars, nvars, rvars>>

\* ---------------------------------------------------- scan_and_validate
\* a - b on usize.  Below zero the subtraction overflows: a build with
\* overflow checks panics, a build without them wraps, and the value is
\* 2^64 + v for the negative v recorded here (2^32 + v on a 32-bit target).
UsizeSub(a, b) ==
  IF a.wrapped \/ a.v < b THEN [wrapped |-> TRUE, v |-> a.v - b]
  ELSE [wrapped |-> FALSE, v |-> a.v - b]

Usize(n) == [wrapped |-> FALSE, v |-> n]

\* lib.rs 106: files.len() - errors.len() - warnings.len()
valid_files(n_files, n_errors, n_warnings) ==
  UsizeSub(UsizeSub(Usize(n_files), n_errors), n_warnings)

\* lib.rs 79-110: the outcomes of the function once validate_delivery_data
\* has returned: the ScanResult, or the panic of the subtraction.
ScanResults ==
  IF files = << >>
  THEN { [panic |-> FALSE, success |-> TRUE, total_files |-> 0,
          valid_files |-> Usize(0)] }
  ELSE LET vf == valid_files(Len(files), Len(errors), Len(warnings))
           ok == [panic |-> FALSE, success |-> errors = << >>,
                  total_files |-> Len(files), valid_files |-> vf]
       IN IF vf.wrapped THEN { ok, [panic |-> TRUE] } ELSE { ok }

ScanReturn ==
  /\ pc = "done"
  /\ \E res \in ScanResults : scan_result' = Some(res)
  /\ pc' = "returned"
  /\ UNCHANGED <<vvars, pvars, xvars, mvars, nvars>>

\* ----------------------------------------------- merge_delivery_data
\* data_processor.rs 72-81: the items of a file whose extraction succeeded
\* are appended, a failure is only logged.  No record is validated.
MergeOne(acc, result) == IF result.ok THEN acc \o result.items ELSE acc

\* ------------------------------------------- group_by_customer_month
RECURSIVE NatChars(_)
NatChars(n) ==
  IF n < 10 THEN <<DigitChar(n)>>
  ELSE Append(NatChars(n \div 10), DigitChar(n % 10))

\* format!("{}-{:02}", date.year(), date.month())
FormatYearMonth(d) ==
  NatChars(d[1]) \o <<"-", DigitChar(d[2] \div 10), DigitChar(d[2] % 10)>>

\* chrono::NaiveDate::parse_from_str with "%Y-%m-%d %H:%M:%S": the time must
\* be well formed and in range, and is then ignored.
ParseYMDHMS(cs) ==
  LET wy == DigitRun(cs, 1, 4)
      p1 == 1 + wy
      wm == DigitRun(cs, p1 + 1, 2)
      p2 == p1 + 1 + wm
      wd == DigitRun(cs, p2 + 1, 2)
      p3 == p2 + 1 + wd
      wH == DigitRun(cs, p3 + 1, 2)
      p4 == p3 + 1 + wH
      wM == DigitRun(cs, p4 + 1, 2)
      p5 == p4 + 1 + wM
      wS == DigitRun(cs, p5 + 1, 2)
  IN IF /\ wy >= 1 /\ p1 <= Len(cs) /\ cs[p1] = "-"
        /\ wm >= 1 /\ p2 <= Len(cs) /\ cs[p2] = "-"
        /\ wd >= 1 /\ p3 <= Len(cs) /\ cs[p3] = " "
        /\ wH >= 1 /\ p4 <= Len(cs) /\ cs[p4] = ":"
        /\ wM >= 1 /\ p5 <= Len(cs) /\ cs[p5] = ":"
        /\ wS >= 1 /\ Len(cs) = p5 + wS
        /\ DigitsValue(cs, p3 + 1, wH) <= 23
        /\ DigitsValue(cs, p4 + 1, wM) <= 59
        /\ DigitsValue(cs, p5 + 1, wS) <= 60
     THEN from_ymd_opt(DigitsValue(cs, 1, wy), DigitsValue(cs, p1 + 1, wm),
                       DigitsValue(cs, p2 + 1, wd))
     ELSE None

\* str::find('-') from position i: the position of the first '-', 0 if none.
RECURSIVE FindDash(_, _)
FindDash(cs, i) ==
  IF i > Len(cs) THEN 0 ELSE IF cs[i] = "-" THEN i ELSE FindDash(cs, i + 1)

\* The sentinel of an unparsable date, U+672A U+77E5.
Unknown == <<"U672A", "U77E5">>

\* Lines 288-311 without the fallback of lines 304-308.
ExtractYearMonthNoFallback(date_str) ==
  LET cs == Chars(date_str)
      a == ParseAccepted(cs)
      b == ParseYMDHMS(cs)
  IN IF a.some THEN FormatYearMonth(a.v)
     ELSE IF b.some THEN FormatYearMonth(b.v)
     ELSE Unknown

\* data_processor.rs 288-311.
extract_year_month(date_str) ==
  LET cs == Chars(date_str)
      a == ParseAccepted(cs)
      b == ParseYMDHMS(cs)
      pos == FindDash(cs, 1)
      second == IF pos = 0 THEN 0 ELSE FindDash(cs, pos + 1)
  IN IF a.some THEN FormatYearMonth(a.v)
     ELSE IF b.some THEN FormatYearMonth(b.v)
     ELSE IF pos # 0 /\ second # 0 THEN SubSeq(cs, 1, second - 1)
     ELSE Unknown

\* The same with the record put in front of its bucket.
GroupPushFront(g, item) ==
  LET key == <<item.customer, extract_year_month(item.date)>>
  IN [k \in DOMAIN g \cup {key} |->
        IF k = key THEN (IF key \in DOMAIN g THEN <<item>> \o g[key]
                         ELSE <<item>>)
        ELSE g[k]]

\* groups.entry(key).or_insert_with(Vec::new).push(item.clone())
GroupPush(g, item) ==
  LET key == <<item.customer, extract_year_month(item.date)>>
  IN [k \in DOMAIN g \cup {key} |->
        IF k = key THEN (IF key \in DOMAIN g THEN Append(g[key], item)
                         ELSE <<item>>)
        ELSE g[k]]

RECURSIVE GroupPrefix(_, _)
GroupPrefix(recs, n) ==
  IF n = 0 THEN << >> ELSE GroupPush(GroupPrefix(recs, n - 1), recs[n])

group_by_customer_month(recs) == GroupPrefix(recs, Len(recs))

\* ------------------------------------------- process_delivery_orders
\* lib.rs 139-140 with data_processor.rs 72-81: the next file of the same
\* input list is extracted and merged.
MergeFile ==
  /\ pc = "done"
  /\ merge_idx < Len(files)
  /\ merge_idx' = merge_idx + 1
  /\ merged' = MergeOne(merged, files[merge_idx + 1].result)
  /\ UNCHANGED <<vvars, pc, groups, summary, xvars, mvars, nvars, rvars>>

\* lib.rs 133-152: with a file found and a record extracted, the merged
\* records are grouped.
Group ==
  /\ pc = "done"
  /\ files # << >>
  /\ merge_idx = Len(files)
  /\ merged # << >>
  /\ groups' = group_by_customer_month(merged)
  /\ pc' = "grouped"
  /\ UNCHANGED <<vvars, merged, merge_idx, summary, xvars, mvars, nvars, rvars>>

vars == <<vvars, pc, pvars, xvars, mvars, nvars, rvars>>

\* Lines 94-98 of validate_delivery_data, 70 of merge_delivery_data.
InitValidate ==
  /\ files = << >>
  /\ all_items = << >>
  /\ errors = << >>
  /\ warnings = << >>
  /\ order_no_map = << >>
  /\ merged = << >>
  /\ merge_idx = 0
  /\ groups = << >>
  /\ summary = << >>
  /\ number_text = << >>
  /\ number = None
  /\ scan_result = None

\* No sheet is being extracted.
NoExtract ==
  /\ sheet = << >>
  /\ x_pc = "idle"
  /\ col_map = << >>
  /\ data_start_row = 0
  /\ row_idx = 0
  /\ header_order_no = << >>
  /\ items = << >>
  /\ emitted_from = << >>
  /\ scan_idx = 0
  /\ customer_name = << >>
  /\ date = << >>
  /\ delivery_order_no = << >>

Init == InitValidate /\ pc = "loop" /\ NoExtract

Next == ValidateFile \/ ValidateReturn

Spec == Init /\ [][Next]_vars

\* scan_and_validate up to its return value.
NextScan == ValidateFile \/ ValidateReturn \/ ScanReturn

SpecScan == Init /\ [][NextScan]_vars

\* scan_and_validate followed by process_delivery_orders on the same files.
NextPipeline == ValidateFile \/ ValidateReturn \/ MergeFile \/ Group

SpecPipeline == Init /\ [][NextPipeline]_vars

\* ================================================ extract_delivery_data
\* excel_parser.rs.  Row and column indices are 0-based as in the code; a
\* TLA+ sequence is 1-based, so row r of the sheet is sheet[r + 1].

\* s.contains(pat)
Contains(cs, pat) ==
  \E i \in 0..(Len(cs) - Len(pat)) : SubSeq(cs, i + 1, i + Len(pat)) = pat

ContainsAny(cs, pats) == \E pt \in pats : Contains(cs, pt)

\* char::is_whitespace, on the characters of the model
IsSpace(c) == c \in {" ", "LF"}

RECURSIVE TrimStart(_)
TrimStart(cs) ==
  IF cs # << >> /\ IsSpace(Head(cs)) THEN TrimStart(Tail(cs)) ELSE cs

RECURSIVE TrimEnd(_)
TrimEnd(cs) ==
  IF cs # << >> /\ IsSpace(cs[Len(cs)])
  THEN TrimEnd(SubSeq(cs, 1, Len(cs) - 1)) ELSE cs

\* str::trim
Trim(cs) == TrimEnd(TrimStart(cs))

\* An f64 that a decimal text denotes: n / 10^k, with no trailing zero.
RECURSIVE Pow10(_)
Pow10(k) == IF k = 0 THEN 1 ELSE 10 * Pow10(k - 1)

RECURSIVE Num(_, _)
Num(n, k) ==
  IF k > 0 /\ n % 10 = 0 THEN Num(n \div 10, k - 1) ELSE [n |-> n, k |-> k]

Zero == Num(0, 0)

\* calamine::Data, the variants of the sheets of the model.
DataEmpty == [t |-> "Empty"]
DataString(s) == [t |-> "String", s |-> s]
DataText(cs) == [t |-> "String", cs |-> cs]
DataFloat(n, k) == [t |-> "Float", f |-> Num(n, k)]
DataInt(i) == [t |-> "Int", i |-> i]

\* The characters of a string cell, which the model names (s) or spells (cs).
StringOf(cell) == IF "cs" \in DOMAIN cell THEN cell.cs ELSE Chars(cell.s)

\* k decimal digits of n, zero padded
RECURSIVE PadDigits(_, _)
PadDigits(n, k) ==
  IF k = 0 THEN << >>
  ELSE Append(PadDigits(n \div 10, k - 1), DigitChar(n % 10))

\* Display of an f64 (no exponent for the values of the model)
F64Chars(f) ==
  LET a == IF f.n < 0 THEN 0 - f.n ELSE f.n
      sign == IF f.n < 0 THEN <<"-">> ELSE << >>
  IN IF f.k = 0 THEN sign \o NatChars(a)
     ELSE sign \o NatChars(a \div Pow10(f.k)) \o <<".">>
            \o PadDigits(a % Pow10(f.k), f.k)

\* cell.to_string()
to_string(cell) ==
  CASE cell.t = "Empty" -> << >>
    [] cell.t = "String" -> StringOf(cell)
    [] cell.t = "Float" -> F64Chars(cell.f)
    [] cell.t = "Int" ->
         IF cell.i < 0 THEN <<"-">> \o NatChars(0 - cell.i)
         ELSE NatChars(cell.i)

\* str::parse::<f64>: an optional sign, digits with an optional point and at
\* least one digit, nothing else (no text of the model carries an exponent,
\* "inf" or "nan").
ParseF64(cs) ==
  LET signed == cs # << >> /\ cs[1] \in {"+", "-"}
      neg == cs # << >> /\ cs[1] = "-"
      start == IF signed THEN 2 ELSE 1
      w1 == DigitRun(cs, start, Len(cs))
      hasDot == start + w1 <= Len(cs) /\ cs[start + w1] = "."
      w2 == IF hasDot THEN DigitRun(cs, start + w1 + 1, Len(cs)) ELSE 0
      endpos == start + w1 + (IF hasDot THEN 1 + w2 ELSE 0)
      mag == DigitsValue(cs, start, w1) * Pow10(w2)
               + DigitsValue(cs, start + w1 + 1, w2)
  IN IF w1 + w2 >= 1 /\ endpos = Len(cs) + 1
     THEN Some(Num(IF neg THEN 0 - mag ELSE mag, w2))
     ELSE None

\* char::is_numeric, on the characters of the model: the ASCII digits and
\* the fullwidth digit one, U+FF11.
NumericChars == Digits \cup {"UFF11"}

\* Lines 245-252: the leading run of numeric characters, '.' and '-'.
RECURSIVE LeadingRun(_)
LeadingRun(cs) ==
  IF cs # << >> /\ Head(cs) \in NumericChars \cup {".", "-"}
  THEN <<Head(cs)>> \o LeadingRun(Tail(cs)) ELSE << >>

\* Lines 234-257.
extract_number(cell) ==
  CASE cell.t = "Float" -> Some(cell.f)
    [] cell.t = "Int" -> Some(Num(cell.i, 0))
    [] cell.t = "String" ->
         LET t == Trim(StringOf(cell))
         IN IF t = << >> THEN None
            ELSE IF ParseF64(t).some THEN ParseF64(t)
            ELSE ParseF64(LeadingRun(t))
    [] OTHER -> None

\* ---------------------------------------------------- header locator
HeaderScanRows == 15
DefaultDataStartRow == 8
DefaultProductCol == 0
DefaultSpecCol == 2
DefaultQuantityCol == 4
DefaultUnitCol == 5

ProductLabels == {<<"U8D27", "U540D">>, <<"U8D27", "U54C1", "U540D", "U79F0">>, <<"D", "e", "s", "c", "r", "i", "p", "t", "i", "o", "n">>}
SpecLabels == {<<"U89C4", "U683C">>}
QuantityLabels == {<<"U6570", "U91CF">>, <<"Q", "u", "a", "n", "t", "i", "t", "y">>}
UnitLabels == {<<"U5355", "U4F4D">>, <<"u", "n", "i", "t">>}
PriceLabels == {<<"U5355", "U4EF7">>, <<"U", "n", "i", "t", " ", "P", "r", "i", "c", "e">>, <<"U4EF7", "U683C">>, <<"P", "r", "i", "c", "e">>}
AmountLabels == {<<"U91D1", "U989D">>, <<"A", "m", "o", "u", "n", "t">>, <<"U603B", "U4EF7">>}
OrderNoLabels == {<<"U8BA2", "U5355", "U53F7">>, <<"P", "O">>}

\* Lines 113-128: the family a header cell is taken for, "none" if no
\* branch of the chain matches.
LabelFamily(s) ==
  IF ContainsAny(s, ProductLabels) THEN "product"
  ELSE IF ContainsAny(s, SpecLabels) THEN "spec"
  ELSE IF ContainsAny(s, QuantityLabels) THEN "quantity"
  ELSE IF ContainsAny(s, UnitLabels) THEN "unit"
  ELSE IF ContainsAny(s, PriceLabels) THEN "price"
  ELSE IF ContainsAny(s, AmountLabels) THEN "amount"
  ELSE IF ContainsAny(s, OrderNoLabels) THEN "order_no"
  ELSE "none"

\* The same scan with found_header set by a label of any family.
RECURSIVE ScanHeaderCellsAnyLabel(_, _, _, _)
ScanHeaderCellsAnyLabel(m, found_header, row, c) ==
  IF c >= Len(row) THEN [col_map |-> m, found_header |-> found_header]
  ELSE LET fam == LabelFamily(to_string(row[c + 1]))
       IN ScanHeaderCellsAnyLabel(
            IF fam = "none" THEN m ELSE MapInsert(m, fam, c),
            found_header \/ fam # "none", row, c + 1)

\* Lines 110-129: the cells of one row from column c on.
RECURSIVE ScanHeaderCells(_, _, _, _)
ScanHeaderCells(m, found_header, row, c) ==
  IF c >= Len(row) THEN [col_map |-> m, found_header |-> found_header]
  ELSE LET fam == LabelFamily(to_string(row[c + 1]))
       IN ScanHeaderCells(IF fam = "none" THEN m ELSE MapInsert(m, fam, c),
                          found_header \/ fam = "product", row, c + 1)

\* Lines 105-135: the rows from r on.
RECURSIVE LocateFrom(_, _, _)
LocateFrom(sh, m, r) ==
  IF r >= HeaderScanRows
  THEN [col_map |-> m, data_start_row |-> DefaultDataStartRow]
  ELSE IF r >= Len(sh) THEN LocateFrom(sh, m, r + 1)
  ELSE LET res == ScanHeaderCells(m, FALSE, sh[r + 1], 0)
       IN IF res.found_header
          THEN [col_map |-> res.col_map, data_start_row |-> r + 1]
          ELSE LocateFrom(sh, res.col_map, r + 1)

\* col_map.get(fam).unwrap_or(&default)
ColOr(m, fam, default) == IF fam \in DOMAIN m THEN m[fam] ELSE default

\* col_map.get(fam).cloned()
ColOpt(m, fam) == IF fam \in DOMAIN m THEN Some(m[fam]) ELSE None

\* ------------------------------------------------------------ row walk
\* row.get(i)
RowGet(row, i) == IF i < Len(row) THEN Some(row[i + 1]) ELSE None

\* U+5408 U+8BA1 ("total") and U+9001 U+8D27 U+5355 U+4F4D ("delivering unit")
TotalsTotal == <<"U5408", "U8BA1">>
TotalsSender == <<"U9001", "U8D27", "U5355", "U4F4D">>
TotalsMarkers == {TotalsTotal, TotalsSender}

\* Lines 151-152.
IsTotalsRowFirstMarkerOnly(row) ==
  LET first_cell == IF RowGet(row, 0).some THEN to_string(RowGet(row, 0).v)
                    ELSE << >>
  IN Contains(first_cell, TotalsTotal)

IsTotalsRow(row) ==
  LET first_cell == IF RowGet(row, 0).some THEN to_string(RowGet(row, 0).v)
                    ELSE << >>
  IN ContainsAny(first_cell, TotalsMarkers)

\* replace('\n', " ").replace('"', "")
RECURSIVE StripNewlinesQuotes(_)
StripNewlinesQuotes(cs) ==
  IF cs = << >> THEN << >>
  ELSE IF Head(cs) = "LF" THEN <<" ">> \o StripNewlinesQuotes(Tail(cs))
  ELSE IF Head(cs) = "QUOTE" THEN StripNewlinesQuotes(Tail(cs))
  ELSE <<Head(cs)>> \o StripNewlinesQuotes(Tail(cs))

\* Lines 157-160.
ProductNameUnfiltered(row, idx_product) ==
  IF RowGet(row, idx_product).some
  THEN Some(Trim(StripNewlinesQuotes(to_string(RowGet(row, idx_product).v))))
  ELSE None

product_name(row, idx_product) ==
  LET c == RowGet(row, idx_product)
      t == Trim(StripNewlinesQuotes(to_string(c.v)))
  IN IF c.some /\ t # << >> THEN Some(t) ELSE None

\* Line 174.
quantity(row, idx_quantity) ==
  IF RowGet(row, idx_quantity).some
  THEN extract_number(RowGet(row, idx_quantity).v) ELSE None

\* Lines 168-171, 182-185: trimmed text of a column, "" when absent.
TextAt(row, idx) ==
  IF RowGet(row, idx).some THEN Trim(to_string(RowGet(row, idx).v))
  ELSE << >>

\* Lines 188, 191: number of an optional column, 0.0 when unmapped, absent
\* or not a number.
NumberAt(row, idx_opt) ==
  IF idx_opt.some /\ RowGet(row, idx_opt.v).some
     /\ extract_number(RowGet(row, idx_opt.v).v).some
  THEN extract_number(RowGet(row, idx_opt.v).v).v ELSE Zero

\* s.split(|c| c == ':' || c == U+FF1A): the parts of cs.
RECURSIVE SplitOn(_, _, _)
SplitOn(cs, seps, cur) ==
  IF cs = << >> THEN <<cur>>
  ELSE IF Head(cs) \in seps THEN <<cur>> \o SplitOn(Tail(cs), seps, << >>)
  ELSE SplitOn(Tail(cs), seps, Append(cur, Head(cs)))

Colons == {":", "UFF1A"}

\* The same cell with line 199 taking every extracted value.
ResyncCellOverwrite(h, cell) ==
  LET s == to_string(cell)
      parts == SplitOn(s, Colons, << >>)
  IN IF /\ Contains(s, <<"U8BA2", "U5355", "U53F7">>)
        /\ Len(parts) > 1
        /\ Trim(parts[2]) # << >>
     THEN Trim(parts[2]) ELSE h

\* Lines 195-204: one cell of the row against the header-level order number.
ResyncCell(h, cell) ==
  LET s == to_string(cell)
      parts == SplitOn(s, Colons, << >>)
  IN IF /\ Contains(s, <<"U8BA2", "U5355", "U53F7">>)
        /\ Len(parts) > 1
        /\ Trim(parts[2]) # << >>
        /\ (h = << >> \/ h = Trim(parts[2]))
     THEN Trim(parts[2]) ELSE h

\* Lines 194-205: all cells of the row, left to right.
RECURSIVE ResyncRow(_, _, _)
ResyncRow(h, row, c) ==
  IF c >= Len(row) THEN h ELSE ResyncRow(ResyncCell(h, row[c + 1]), row, c + 1)

\* Lines 208-212.
row_order_no(row, idx_order_no, h) ==
  IF /\ idx_order_no.some
     /\ RowGet(row, idx_order_no.v).some
     /\ Trim(to_string(RowGet(row, idx_order_no.v).v)) # << >>
  THEN Trim(to_string(RowGet(row, idx_order_no.v).v))
  ELSE h

\* Lines 146-227: what one turn of the walk does with the row at index idx.
\* "continue" goes on without a record, "break" ends the walk, "push" emits.
WalkOne(row, idx, start, m, h) ==
  LET pn == product_name(row, ColOr(m, "product", DefaultProductCol))
      qty == quantity(row, ColOr(m, "quantity", DefaultQuantityCol))
      h2 == ResyncRow(h, row, 0)
  IN IF idx < start THEN [op |-> "continue"]
     ELSE IF IsTotalsRow(row) THEN [op |-> "break"]
     ELSE IF ~pn.some THEN [op |-> "continue"]
     ELSE IF ~qty.some THEN [op |-> "continue"]
     ELSE [op |-> "push",
           header_order_no |-> h2,
           item |-> [product_name |-> pn.v,
                     spec |-> TextAt(row, ColOr(m, "spec", DefaultSpecCol)),
                     quantity |-> qty.v,
                     unit |-> TextAt(row, ColOr(m, "unit", DefaultUnitCol)),
                     unit_price |-> NumberAt(row, ColOpt(m, "price")),
                     amount |-> NumberAt(row, ColOpt(m, "amount")),
                     order_no |->
                       row_order_no(row, ColOpt(m, "order_no"), h2)]]

\* ------------------------------------------------------- metadata scan
MetaScanRows == 10

\* chrono::NaiveDate::parse_from_str for "%d/%m/%Y" (day_first) and
\* "%m/%d/%Y": two fields of 1 or 2 digits, a year of up to 4, nothing after.
ParseSlashYearLast(cs, day_first) ==
  LET wa == DigitRun(cs, 1, 2)
      p1 == 1 + wa
      wb == DigitRun(cs, p1 + 1, 2)
      p2 == p1 + 1 + wb
      wy == DigitRun(cs, p2 + 1, 4)
      a == DigitsValue(cs, 1, wa)
      b == DigitsValue(cs, p1 + 1, wb)
  IN IF /\ wa >= 1
        /\ p1 <= Len(cs) /\ cs[p1] = "/"
        /\ wb >= 1
        /\ p2 <= Len(cs) /\ cs[p2] = "/"
        /\ wy >= 1
        /\ Len(cs) = p2 + wy
     THEN from_ymd_opt(DigitsValue(cs, p2 + 1, wy),
                       IF day_first THEN b ELSE a,
                       IF day_first THEN a ELSE b)
     ELSE None

\* Lines 271-287: the five formats in order, the text itself when none fits.
normalize_date(cs) ==
  LET a == ParseYMD(cs, "-", "-", << >>)
      b == ParseYMD(cs, "/", "/", << >>)
      c == ParseYMD(cs, "U5E74", "U6708", <<"U65E5">>)
      d == ParseSlashYearLast(cs, TRUE)
      e == ParseSlashYearLast(cs, FALSE)
  IN IF a.some THEN FormatDate(a.v)
     ELSE IF b.some THEN FormatDate(b.v)
     ELSE IF c.some THEN FormatDate(c.v)
     ELSE IF d.some THEN FormatDate(d.v)
     ELSE IF e.some THEN FormatDate(e.v)
     ELSE cs

\* Lines 290-296: 1899-12-30 plus serial days, as a proleptic Gregorian
\* date (1899-12-30 is day -25569 counted from 1970-01-01).
excel_serial_to_date(serial) ==
  LET z == serial - 25569 + 719468
      era == z \div 146097
      doe == z - era * 146097
      yoe == (doe - doe \div 1460 + doe \div 36524 - doe \div 146096) \div 365
      doy == doe - (365 * yoe + yoe \div 4 - yoe \div 100)
      mp == (5 * doy + 2) \div 153
      d == doy - (153 * mp + 2) \div 5 + 1
      m == IF mp < 10 THEN mp + 3 ELSE mp - 9
      y == yoe + era * 400 + (IF m <= 2 THEN 1 ELSE 0)
  IN FormatDate(<<y, m, d>>)

\* `f as i64`: the fraction is dropped, toward zero.
TruncF64(f) ==
  IF f.n >= 0 THEN f.n \div Pow10(f.k) ELSE 0 - ((0 - f.n) \div Pow10(f.k))

\* Lines 260-268.
excel_date_to_string(cell) ==
  CASE cell.t = "Float" -> excel_serial_to_date(TruncF64(cell.f))
    [] cell.t = "Int" -> excel_serial_to_date(cell.i)
    [] cell.t = "String" -> normalize_date(Trim(StringOf(cell)))
    [] OTHER -> << >>

\* char::to_lowercase on the letters of the model
LowerOf ==
  ("A" :> "a") @@ ("B" :> "b") @@ ("C" :> "c") @@ ("D" :> "d")
  @@ ("E" :> "e") @@ ("F" :> "f") @@ ("G" :> "g") @@ ("H" :> "h")
  @@ ("I" :> "i") @@ ("J" :> "j") @@ ("K" :> "k") @@ ("L" :> "l")
  @@ ("M" :> "m") @@ ("N" :> "n") @@ ("O" :> "o") @@ ("P" :> "p")
  @@ ("Q" :> "q") @@ ("R" :> "r") @@ ("S" :> "s") @@ ("T" :> "t")
  @@ ("U" :> "u") @@ ("V" :> "v") @@ ("W" :> "w") @@ ("X" :> "x")
  @@ ("Y" :> "y") @@ ("Z" :> "z")

\* str::to_lowercase
to_lowercase(cs) ==
  [i \in 1..Len(cs) |-> IF cs[i] \in DOMAIN LowerOf THEN LowerOf[cs[i]]
                        ELSE cs[i]]

\* Lines 32, 41: cell.to_string().trim() of the cell at column c, and of
\* the cell right of it ("" stands for a cell that is not there).
CellStr(row, c) == Trim(to_string(row[c + 1]))

NextStr(row, c) ==
  IF RowGet(row, c + 1).some THEN Trim(to_string(RowGet(row, c + 1).v))
  ELSE << >>

\* U+5BA2 U+6237 ("customer"), U+5355 U+4F4D ("unit", "organisation")
CustomerLabels == {<<"U5BA2", "U6237">>, <<"U5355", "U4F4D">>}

\* Lines 36-46: the customer search on one cell; cur is customer_name.
CustomerCell(cur, row, c) ==
  LET cell_str == CellStr(row, c)
      parts == SplitOn(cell_str, Colons, << >>)
  IN IF ContainsAny(cell_str, CustomerLabels) /\ cur = << >>
     THEN IF Len(parts) > 1 /\ Trim(parts[2]) # << >> THEN Trim(parts[2])
          ELSE IF NextStr(row, c) # << >> THEN NextStr(row, c)
          ELSE cur
     ELSE cur

\* The same search without the is_empty() test of line 49.
DateCellLastWins(cur, row, c) ==
  LET cell_str == CellStr(row, c)
      parts == SplitOn(cell_str, Colons, << >>)
  IN IF Contains(cell_str, <<"U65E5", "U671F">>)
     THEN IF Len(parts) > 1 /\ Trim(parts[2]) # << >>
          THEN normalize_date(Trim(parts[2]))
          ELSE IF RowGet(row, c + 1).some
          THEN excel_date_to_string(RowGet(row, c + 1).v)
          ELSE cur
     ELSE cur

\* Lines 49-56: the date search, U+65E5 U+671F ("date"); cur is date.
DateCell(cur, row, c) ==
  LET cell_str == CellStr(row, c)
      parts == SplitOn(cell_str, Colons, << >>)
  IN IF Contains(cell_str, <<"U65E5", "U671F">>) /\ cur = << >>
     THEN IF Len(parts) > 1 /\ Trim(parts[2]) # << >>
          THEN normalize_date(Trim(parts[2]))
          ELSE IF RowGet(row, c + 1).some
          THEN excel_date_to_string(RowGet(row, c + 1).v)
          ELSE cur
     ELSE cur

\* "no" and U+5355 U+53F7 ("slip number")
NoTokens == {<<"n", "o">>, <<"U5355", "U53F7">>}
NoSeparators == {":", "UFF1A", ".", " "}

\* Lines 61-71: the value after the first part that is "no" or the slip
\* label and is followed by a part that is not blank; "" if there is none.
RECURSIVE AfterNoToken(_, _)
AfterNoToken(parts, p) ==
  IF p > Len(parts) THEN << >>
  ELSE IF /\ to_lowercase(Trim(parts[p])) \in NoTokens
          /\ p + 1 <= Len(parts)
          /\ Trim(parts[p + 1]) # << >>
  THEN Trim(parts[p + 1])
  ELSE AfterNoToken(parts, p + 1)

\* Lines 59-86: the delivery order number search; cur is delivery_order_no.
DeliveryNoCell(cur, row, c) ==
  LET cell_str == CellStr(row, c)
      cell_lower == to_lowercase(cell_str)
      v1 == AfterNoToken(SplitOn(cell_str, NoSeparators, << >>), 1)
      v2 == IF v1 = << >> /\ Len(cell_lower) >= 2
                /\ SubSeq(cell_lower, 1, 2) = <<"n", "o">>
            THEN Trim(SubSeq(cell_str, 3, Len(cell_str))) ELSE v1
      v3 == IF v2 = << >> THEN NextStr(row, c) ELSE v2
  IN IF ContainsAny(cell_lower, NoTokens) /\ cur = << >> THEN v3 ELSE cur

\* Lines 89-99: the header-level purchase order search, U+8BA2 U+5355 U+53F7
\* ("order number"); cur is header_order_no.
HeaderOrderCell(cur, row, c) ==
  LET cell_str == CellStr(row, c)
      parts == SplitOn(cell_str, Colons, << >>)
  IN IF Contains(cell_str, <<"U8BA2", "U5355", "U53F7">>) /\ cur = << >>
     THEN IF Len(parts) > 1 /\ Trim(parts[2]) # << >> THEN Trim(parts[2])
          ELSE IF NextStr(row, c) # << >> THEN NextStr(row, c)
          ELSE cur
     ELSE cur

\* Lines 31-100: the cells of one row from column c on; st holds the four
\* values found so far.
RECURSIVE ScanMetaCells(_, _, _)
ScanMetaCells(st, row, c) ==
  IF c >= Len(row) THEN st
  ELSE ScanMetaCells(
         [customer_name |-> CustomerCell(st.customer_name, row, c),
          date |-> DateCell(st.date, row, c),
          delivery_order_no |-> DeliveryNoCell(st.delivery_order_no, row, c),
          header_order_no |-> HeaderOrderCell(st.header_order_no, row, c)],
         row, c + 1)

\* Lines 29-101: one turn of the loop over the first rows of the sheet.
ScanMetaRow ==
  /\ x_pc = "meta"
  /\ scan_idx < MetaScanRows
  /\ LET st == [customer_name |-> customer_name,
                date |-> date,
                delivery_order_no |-> delivery_order_no,
                header_order_no |-> header_order_no]
         res == IF scan_idx < Len(sheet)
                THEN ScanMetaCells(st, sheet[scan_idx + 1], 0) ELSE st
     IN /\ customer_name' = res.customer_name
        /\ date' = res.date
        /\ delivery_order_no' = res.delivery_order_no
        /\ header_order_no' = res.header_order_no
  /\ scan_idx' = scan_idx + 1
  /\ x_pc' = IF scan_idx + 1 = MetaScanRows THEN "header" ELSE "meta"
  /\ UNCHANGED <<sheet, col_map, data_start_row, row_idx, items,
                 emitted_from>>
  /\ UNCHANGED <<vvars, pc, pvars, nvars, rvars>>

\* Lines 104-143: the header scan of the whole sheet.
LocateHeader ==
  /\ x_pc = "header"
  /\ LET res == LocateFrom(sheet, << >>, 0)
     IN /\ col_map' = res.col_map
        /\ data_start_row' = res.data_start_row
  /\ x_pc' = "walk"
  /\ UNCHANGED <<sheet, row_idx, header_order_no, items, emitted_from>>
  /\ UNCHANGED <<vvars, pc, pvars, mvars, nvars, rvars>>

\* Lines 145-228: one turn of the loop over range.rows().
WalkRow ==
  /\ x_pc = "walk"
  /\ row_idx < Len(sheet)
  /\ LET w == WalkOne(sheet[row_idx + 1], row_idx, data_start_row, col_map,
                      header_order_no)
     IN /\ x_pc' = IF w.op = "break" THEN "done" ELSE "walk"
        /\ row_idx' = IF w.op = "break" THEN row_idx ELSE row_idx + 1
        /\ items' = IF w.op = "push"
                     THEN Append(items,
                                 w.item @@
                                 [customer |-> customer_name,
                                  date |-> date,
                                  delivery_order_no |-> delivery_order_no])
                     ELSE items
        /\ emitted_from' = IF w.op = "push" THEN Append(emitted_from, row_idx)
                           ELSE emitted_from
        /\ header_order_no' = IF w.op = "push" THEN w.header_order_no
                              ELSE header_order_no
  /\ UNCHANGED <<sheet, col_map, data_start_row>>
  /\ UNCHANGED <<vvars, pc, pvars, mvars, nvars, rvars>>

\* Line 230: the rows are exhausted, Ok(items).
WalkEnd ==
  /\ x_pc = "walk"
  /\ row_idx = Len(sheet)
  /\ x_pc' = "done"
  /\ UNCHANGED <<sheet, col_map, data_start_row, row_idx, header_order_no,
                 items, emitted_from>>
  /\ UNCHANGED <<vvars, pc, pvars, mvars, nvars, rvars>>

\* ------------------------------------------------- the sheets of the model
MaxBodyRows == 3
SheetWidths == {2, 5}
BlankRowsBefore == {0, 8}

BodyRows ==
  { <<DataString("{U8D27}{U540D}"), DataString("{U6570}{U91CF}"), DataEmpty, DataEmpty, DataEmpty>>,
    <<DataString("{U6570}{U91CF}"), DataString("{U8D27}{U540D}"), DataEmpty, DataEmpty, DataEmpty>>,
    <<DataString("steel"), DataFloat(10, 0), DataString("{U8BA2}{U5355}{U53F7}:PO1"), DataEmpty, DataFloat(25, 1)>>,
    <<DataString("160*1000{U7C73}"), DataString("{U94A2}{U7BA1}"), DataEmpty, DataEmpty, DataEmpty>>,
    <<DataEmpty, DataFloat(10, 0), DataEmpty, DataEmpty, DataInt(3)>>,
    <<DataString("{QUOTE}{LF}"), DataFloat(10, 0), DataEmpty, DataEmpty, DataInt(3)>>,
    <<DataString("steel"), DataString("1-2"), DataEmpty, DataEmpty, DataEmpty>>,
    <<DataString("{U5408}{U8BA1}"), DataFloat(10, 0), DataEmpty, DataEmpty, DataInt(3)>>,
    <<DataString("{U9001}{U8D27}{U5355}{U4F4D}"), DataFloat(10, 0), DataEmpty, DataEmpty, DataInt(3)>> }

BlankRow == <<DataEmpty, DataEmpty, DataEmpty, DataEmpty, DataEmpty>>

RECURSIVE Bodies(_)
Bodies(n) ==
  IF n = 0 THEN {<< >>}
  ELSE Bodies(n - 1) \cup
       { Append(b, r) : b \in { x \in Bodies(n - 1) : Len(x) = n - 1 },
                        r \in BodyRows }

\* A range is rectangular: every row has the width of the sheet.
Sheets ==
  { [r \in 1..(k + Len(b)) |->
       SubSeq(IF r <= k THEN BlankRow ELSE b[r - k], 1, w)] :
    k \in BlankRowsBefore, b \in Bodies(MaxBodyRows), w \in SheetWidths }

\* Lines 21-26 and 105-106 after the workbook and its first sheet were read.
ExtractStart ==
  /\ x_pc = "meta"
  /\ scan_idx = 0
  /\ customer_name = << >>
  /\ date = << >>
  /\ delivery_order_no = << >>
  /\ header_order_no = << >>
  /\ col_map = << >>
  /\ data_start_row = DefaultDataStartRow
  /\ row_idx = 0
  /\ items = << >>
  /\ emitted_from = << >>

InitExtract ==
  /\ InitValidate /\ pc = "idle"
  /\ sheet \in Sheets
  /\ ExtractStart

NextExtract == ScanMetaRow \/ LocateHeader \/ WalkRow \/ WalkEnd

SpecExtract == InitExtract /\ [][NextExtract]_vars

\* --------------------------------- sheets for the header locator
MaxHeadRows == 3
HeadBlankRows == {0, 8, 14, 15}

\* A header row that names the quantity twice, a row of labels without a
\* product label, and a data row.
HeadRows ==
  { <<DataString("{U8D27}{U540D}"), DataString("{U6570}{U91CF}"), DataString("{U6570}{U91CF}"), DataEmpty, DataEmpty, DataEmpty>>,
    <<DataString("{U6570}{U91CF}"), DataString("{U91D1}{U989D}"), DataEmpty, DataEmpty, DataEmpty, DataEmpty>>,
    <<DataString("steel"), DataInt(3), DataInt(7), DataEmpty, DataInt(10), DataString("kg")>> }

WideBlankRow == <<DataEmpty, DataEmpty, DataEmpty, DataEmpty, DataEmpty, DataEmpty>>

\* The sequences of at most n rows drawn from rows.
RECURSIVE RowSeqs(_, _)
RowSeqs(rows, n) ==
  IF n = 0 THEN {<< >>}
  ELSE RowSeqs(rows, n - 1) \cup
       { Append(b, r) : b \in { x \in RowSeqs(rows, n - 1) : Len(x) = n - 1 },
                        r \in rows }

HeadSheets ==
  { [r \in 1..(k + Len(b)) |-> IF r <= k THEN WideBlankRow ELSE b[r - k]] :
    k \in HeadBlankRows, b \in RowSeqs(HeadRows, MaxHeadRows) }

InitHeader ==
  /\ InitValidate /\ pc = "idle"
  /\ sheet \in HeadSheets
  /\ ExtractStart

SpecHeader == InitHeader /\ [][NextExtract]_vars

\* ------------------------------------ sheets for the metadata scan
MaxMetaRows == 3
MetaBlankRows == {0, 8}

\* Rows of the top of a delivery note: customer, date, slip number and
\* purchase order, each given inside the labelled cell or in the cell right
\* of it.  45366 is the serial of 2024-03-15.
MetaRows ==
  { <<DataString("{U5BA2}{U6237}:A"), DataString("{U65E5}{U671F}"), DataInt(45366), DataEmpty, DataInt(5)>>,
    <<DataString("{U5BA2}{U6237}"), DataString("B "), DataString("No.DN-7"), DataEmpty, DataInt(5)>>,
    <<DataString("{U65E5}{U671F}{UFF1A}2024/3/5"), DataString("{U8BA2}{U5355}{U53F7}:PO1"), DataEmpty, DataEmpty, DataInt(5)>>,
    <<DataString("{U5355}{U53F7}"), DataString("DN-001"), DataString("{U8BA2}{U5355}{U53F7}:PO2"), DataEmpty, DataInt(5)>>,
    <<DataString("{U65E5}{U671F}"), DataEmpty, DataEmpty, DataEmpty, DataEmpty>> }

MetaSheets ==
  { [r \in 1..(k + Len(b)) |-> IF r <= k THEN BlankRow ELSE b[r - k]] :
    k \in MetaBlankRows, b \in RowSeqs(MetaRows, MaxMetaRows) }

InitMeta ==
  /\ InitValidate /\ pc = "idle"
  /\ sheet \in MetaSheets
  /\ ExtractStart

SpecMeta == InitMeta /\ [][NextExtract]_vars

\* ------------------------------- sheets for the purchase-order resync
MaxResyncRows == 3
ResyncBlankRows == {0, 10}

\* A header row with an order-number column, data rows with a purchase
\* order buried in a remark ("PO1", "PO2"), with the order-number column
\* filled, with neither, and a row without a product name.
ResyncRows ==
  { <<DataString("{U8D27}{U540D}"), DataString("{U6570}{U91CF}"), DataString("{U8BA2}{U5355}{U53F7}"), DataEmpty, DataEmpty>>,
    <<DataString("steel"), DataInt(10), DataEmpty, DataString("{U8BA2}{U5355}{U53F7}:PO1"), DataEmpty>>,
    <<DataString("steel"), DataInt(10), DataEmpty, DataString("{U8BA2}{U5355}{U53F7}:PO2"), DataEmpty>>,
    <<DataString("steel"), DataInt(10), DataString("DN-001"), DataEmpty, DataEmpty>>,
    <<DataString("steel"), DataInt(10), DataEmpty, DataEmpty, DataEmpty>>,
    <<DataEmpty, DataInt(10), DataEmpty, DataString("{U8BA2}{U5355}{U53F7}:PO2"), DataEmpty>> }

ResyncSheets ==
  { [r \in 1..(k + Len(b)) |-> IF r <= k THEN BlankRow ELSE b[r - k]] :
    k \in ResyncBlankRows, b \in RowSeqs(ResyncRows, MaxResyncRows) }

InitResync ==
  /\ InitValidate /\ pc = "idle"
  /\ sheet \in ResyncSheets
  /\ ExtractStart

SpecResync == InitResync /\ [][NextExtract]_vars

\* ===================================================== generate_summary
\* data_processor.rs 216-270.  An f64 is the decimal it was read from:
\* sums and quotients are exact, which they are in the code for the
\* quantities and amounts of the model.
NumAdd(a, b) ==
  IF a.k >= b.k THEN Num(a.n + b.n * Pow10(a.k - b.k), a.k)
  ELSE Num(a.n * Pow10(b.k - a.k) + b.n, b.k)

\* a < b
NumLess(a, b) == a.n * Pow10(b.k) < b.n * Pow10(a.k)

\* f64::round of p / q for q > 0: to the nearest integer, a half away from
\* zero.
RoundDiv(p, q) ==
  IF p >= 0 THEN (2 * p + q) \div (2 * q)
  ELSE 0 - ((2 * (0 - p) + q) \div (2 * q))

\* Lines 259-262 with the fraction dropped instead of rounded.
AveragePriceTruncated(item) ==
  IF NumLess(Zero, item.quantity)
  THEN Num((item.amount.n * Pow10(item.quantity.k) * 100)
             \div (item.quantity.n * Pow10(item.amount.k)), 2)
  ELSE item.average_price

\* Lines 259-262: amount / quantity, times 100, rounded, divided by 100.
AveragePrice(item) ==
  IF NumLess(Zero, item.quantity)
  THEN Num(RoundDiv(item.amount.n * Pow10(item.quantity.k) * 100,
                    item.quantity.n * Pow10(item.amount.k)), 2)
  ELSE item.average_price

\* s.split(", ") on a character sequence
RECURSIVE SplitCommaSpace(_, _)
SplitCommaSpace(cs, cur) ==
  IF cs = << >> THEN <<cur>>
  ELSE IF Len(cs) >= 2 /\ cs[1] = "," /\ cs[2] = " "
  THEN <<cur>> \o SplitCommaSpace(SubSeq(cs, 3, Len(cs)), << >>)
  ELSE SplitCommaSpace(Tail(cs), Append(cur, Head(cs)))

\* Lines 231-243: the customer of the record joins the list once.
AddCustomer(customers, customer) ==
  LET listed == SplitCommaSpace(customers, << >>)
  IN IF Chars(customer) = << >> THEN customers
     ELSE IF \E i \in 1..Len(listed) : listed[i] = Chars(customer)
     THEN customers
     ELSE (IF customers = << >> THEN << >> ELSE customers \o <<",", " ">>)
            \o Chars(customer)

SummaryKey(item) == <<item.product_name, item.spec, item.unit>>

\* Lines 226-254: the entry of the record's key is updated or created.
SummaryEntry(summary_map, item) ==
  LET key == SummaryKey(item)
  IN [k \in DOMAIN summary_map \cup {key} |->
        IF k # key THEN summary_map[k]
        ELSE IF key \in DOMAIN summary_map
        THEN [summary_map[key] EXCEPT
                !.quantity = NumAdd(@, item.quantity),
                !.amount = NumAdd(@, item.amount),
                !.customers = AddCustomer(@, item.customer)]
        ELSE [product_name |-> item.product_name,
              spec |-> item.spec,
              unit |-> item.unit,
              quantity |-> item.quantity,
              average_price |-> Zero,
              amount |-> item.amount,
              customers |-> Chars(item.customer)]]

\* Lines 219-255: the map after the first n records.
RECURSIVE SummaryMap(_, _)
SummaryMap(recs, n) ==
  IF n = 0 THEN << >> ELSE SummaryEntry(SummaryMap(recs, n - 1), recs[n])

\* Line 257: into_values() gives the entries in the order of the hash
\* table, which is any order of the keys.
IntoValues(summary_map) ==
  { [i \in 1..Cardinality(DOMAIN summary_map) |-> summary_map[order[i]]] :
      order \in { f \in [1..Cardinality(DOMAIN summary_map) -> DOMAIN summary_map] :
                    \A i, j \in DOMAIN f : f[i] = f[j] => i = j } }

\* Line 267, sort_by(|a, b| b.amount.partial_cmp(&a.amount).unwrap()): a
\* stable sort, larger amounts first; x goes behind the rows that are not
\* smaller.
RECURSIVE InsertByAmount(_, _)
InsertByAmount(sorted, x) ==
  IF sorted = << >> THEN <<x>>
  ELSE IF NumLess(Head(sorted).amount, x.amount) THEN <<x>> \o sorted
  ELSE <<Head(sorted)>> \o InsertByAmount(Tail(sorted), x)

RECURSIVE SortByAmountDesc(_, _)
SortByAmountDesc(v, n) ==
  IF n = 0 THEN << >> ELSE InsertByAmount(SortByAmountDesc(v, n - 1), v[n])

\* Lines 216-270: the lists generate_summary can return for recs.
generate_summary(recs) ==
  { SortByAmountDesc([i \in 1..Len(v) |->
                        [v[i] EXCEPT !.average_price = AveragePrice(v[i])]],
                     Len(v)) :
      v \in IntoValues(SummaryMap(recs, Len(recs))) }

\* generate_summary(&all_items)
GenerateSummary ==
  /\ pc = "summary"
  /\ summary' \in generate_summary(merged)
  /\ pc' = "summarized"
  /\ UNCHANGED <<vvars, merged, merge_idx, groups, xvars, mvars, nvars, rvars>>

MaxSummaryItems == 3

\* The records of the summary: name, spec, unit, quantity, amount, customer.
SummaryRecord(p, s, q, a, c) ==
  [product_name |-> p, spec |-> s, unit |-> "kg", quantity |-> q,
   amount |-> a, customer |-> c]

SummaryRecords ==
  { SummaryRecord("steel", "", Num(10, 0), Num(100, 0), "A"),
    SummaryRecord("steel", "", Num(5, 0), Num(60, 0), "B"),
    SummaryRecord("{U94A2}{U7BA1}", "", Num(10, 0), Num(100, 0), "A"),
    SummaryRecord("{U94A2}{U7BA1}", "", Num(0, 0), Num(60, 0), ""),
    SummaryRecord("steel", "x", Num(8, 0), Num(1, 0), "A"),
    SummaryRecord("steel", "x", Num(-25, 1), Num(-100, 0), "B") }

RECURSIVE SummaryInputs(_)
SummaryInputs(n) ==
  IF n = 0 THEN {<< >>}
  ELSE SummaryInputs(n - 1) \cup
       { Append(b, r) : b \in { x \in SummaryInputs(n - 1) : Len(x) = n - 1 },
                        r \in SummaryRecords }

InitSummary ==
  /\ files = << >>
  /\ all_items = << >>
  /\ errors = << >>
  /\ warnings = << >>
  /\ order_no_map = << >>
  /\ merged \in SummaryInputs(MaxSummaryItems)
  /\ merge_idx = 0
  /\ groups = << >>
  /\ summary = << >>
  /\ number_text = << >>
  /\ number = None
  /\ scan_result = None
  /\ pc = "summary"
  /\ NoExtract

NextSummary == GenerateSummary

SpecSummary == InitSummary /\ [][NextSummary]_vars

\* ============================================== group_by_customer_month
\* data_processor.rs 273-285 on a list of records of its own.
MaxGroupItems == 2

GroupDates ==
  { "2024-03-15", "2024-03-15 08:00:00", "2024-02-30", "2024/04/01", "", "24-3-5", "2024-13-45", "a-b-c", "2024-03" }

GroupRecords ==
  { [customer |-> c, date |-> d] : c \in Customers, d \in GroupDates }

RECURSIVE GroupInputs(_)
GroupInputs(n) ==
  IF n = 0 THEN {<< >>}
  ELSE GroupInputs(n - 1) \cup
       { Append(b, r) : b \in { x \in GroupInputs(n - 1) : Len(x) = n - 1 },
                        r \in GroupRecords }

\* group_by_customer_month(&items)
GroupItems ==
  /\ pc = "group"
  /\ groups' = group_by_customer_month(merged)
  /\ pc' = "group_done"
  /\ UNCHANGED <<vvars, merged, merge_idx, summary, xvars, mvars, nvars, rvars>>

InitGroup ==
  /\ files = << >>
  /\ all_items = << >>
  /\ errors = << >>
  /\ warnings = << >>
  /\ order_no_map = << >>
  /\ merged \in GroupInputs(MaxGroupItems)
  /\ merge_idx = 0
  /\ groups = << >>
  /\ summary = << >>
  /\ number_text = << >>
  /\ number = None
  /\ scan_result = None
  /\ pc = "group"
  /\ NoExtract

NextGroup == GroupItems

SpecGroup == InitGroup /\ [][NextGroup]_vars

\* ======================================================= extract_number
\* excel_parser.rs 233-257 on one text cell.
MaxTextLen == 3

TextChars == {"1", "6", ".", "-", "*", " ", "U7C73", "UFF11"}

RECURSIVE Texts(_)
Texts(n) ==
  IF n = 0 THEN {<< >>}
  ELSE Texts(n - 1) \cup
       { Append(t, c) : t \in { x \in Texts(n - 1) : Len(x) = n - 1 },
                        c \in TextChars }

\* The short texts and the text of a quantity with its unit, "160*1000"
\* followed by U+7C73 ("metre").
NumberTexts == Texts(MaxTextLen) \cup {Chars("160*1000{U7C73}")}

\* extract_number(&Data::String(text))
ExtractNumber ==
  /\ pc = "number"
  /\ number' = extract_number(DataText(number_text))
  /\ pc' = "number_done"
  /\ UNCHANGED <<vvars, pvars, xvars, mvars, number_text, rvars>>

InitNumber ==
  /\ files = << >>
  /\ all_items = << >>
  /\ errors = << >>
  /\ warnings = << >>
  /\ order_no_map = << >>
  /\ merged = << >>
  /\ merge_idx = 0
  /\ groups = << >>
  /\ summary = << >>
  /\ number_text \in NumberTexts
  /\ number = None
  /\ scan_result = None
  /\ pc = "number"
  /\ NoExtract

NextNumber == ExtractNumber

SpecNumber == InitNumber /\ [][NextNumber]_vars

\* ================================================================ claims
ItemsOf(p) == SelectSeq(all_items, LAMBDA it : it.source_file = p)
ErrorsOf(p) == SelectSeq(errors, LAMBDA e : e.file = p)
WarningsOf(p) == SelectSeq(warnings, LAMBDA w : w.file = p)
DuplicatesOf(p) ==
  SelectSeq(warnings,
            LAMBDA w : w.file = p /\ w.error.kind = "duplicate_order_no")
FileIdx == 1..Len(files)
Extracted(i) == files[i].result.items
HasOrderNo(i) ==
  Extracted(i) # << >> /\ Extracted(i)[1].delivery_order_no # ""
KeyOf(i) == order_key(Extracted(i)[1])
DateValid(i) == validate_date_str(Extracted(i)[1].date)

\* C1: validate_delivery_data is all-or-nothing per file: a file for which
\* no error was raised has exactly its extracted records in the accepted
\* list, a file for which an error was raised has none of them there.
C1_AllOrNothing ==
  \A i \in FileIdx :
    LET p == files[i].path
    IN /\ ErrorsOf(p) = << >> => ItemsOf(p) = Extracted(i)
       /\ ErrorsOf(p) # << >> => ItemsOf(p) = << >>

\* A file of two records was rejected for its date and another file of two
\* records was accepted.
C1_Witness ==
  /\ pc = "done"
  /\ \E i, j \in FileIdx :
       /\ Len(Extracted(i)) = 2 /\ ErrorsOf(files[i].path) # << >>
       /\ ItemsOf(files[i].path) = << >>
       /\ Len(Extracted(j)) = 2 /\ Len(ItemsOf(files[j].path)) = 2

\* C2: duplicate detection is cross-file only: in the returned warnings a
\* file has exactly one duplicate warning when an earlier file of the input
\* has a record of the same customer and the same non-empty delivery order
\* number (it names the earliest such file), and none otherwise, however
\* many of its own rows repeat the number.
C2_CrossFileDuplicates ==
  pc = "done" =>
    \A j \in FileIdx :
      LET earlier == { i \in 1..(j - 1) : HasOrderNo(i) /\ HasOrderNo(j)
                                          /\ KeyOf(i) = KeyOf(j) }
          first == CHOOSE i \in earlier : \A k \in earlier : i <= k
      IN IF earlier = {}
         THEN DuplicatesOf(files[j].path) = << >>
         ELSE DuplicatesOf(files[j].path) =
                <<Issue(files[j].path,
                        DuplicateMsg(KeyOf(j)[1], KeyOf(j)[2],
                                     file_name(files[first].path)))>>

\* Two files of two rows each share customer and order number: one warning,
\* against the second.
C2_Witness ==
  /\ pc = "done"
  /\ Len(files) >= 2
  /\ Len(Extracted(1)) = 2 /\ Len(Extracted(2)) = 2
  /\ HasOrderNo(1) /\ HasOrderNo(2) /\ KeyOf(1) = KeyOf(2)
  /\ Len(DuplicatesOf(files[2].path)) = 1
  /\ DuplicatesOf(files[1].path) = << >>

\* C3: warnings never reject a batch: a file for which only warnings and no
\* error were raised has all of its extracted records in the accepted list.
C3_WarningsDoNotReject ==
  \A i \in FileIdx :
    LET p == files[i].path
    IN (WarningsOf(p) # << >> /\ ErrorsOf(p) = << >>)
         => ItemsOf(p) = Extracted(i)

\* A file with a date-mismatch warning and a duplicate warning was accepted
\* with its two records.
C3_Witness ==
  /\ pc = "done"
  /\ \E i \in FileIdx :
       LET p == files[i].path
       IN /\ \E k \in 1..Len(warnings) :
               warnings[k].file = p /\ warnings[k].error.kind = "date_mismatch"
          /\ DuplicatesOf(p) # << >>
          /\ ErrorsOf(p) = << >>
          /\ Len(ItemsOf(p)) = 2

\* C4: a file whose extraction fails contributes exactly one error issue
\* (the parse failure) and no accepted record, and the run goes on: every
\* file of the input, before or after a failed one, has its own outcome on
\* record (its parse failure, its empty-file warning, its date errors or
\* its accepted records).
C4_FailureIsLocal ==
  \A i \in FileIdx :
    LET p == files[i].path
    IN /\ ~files[i].result.ok =>
            /\ ErrorsOf(p) = <<Issue(p, ParseFailedMsg)>>
            /\ ItemsOf(p) = << >>
       /\ (files[i].result.ok /\ Extracted(i) = << >>) =>
            Issue(p, EmptyFileMsg) \in { warnings[k] : k \in 1..Len(warnings) }
       /\ (files[i].result.ok /\ Extracted(i) # << >>) =>
            IF DateValid(i) THEN ItemsOf(p) = Extracted(i)
            ELSE ErrorsOf(p) # << >>

\* The first file failed, the second was accepted, the third failed, and the
\* triple was returned.
C4_Witness ==
  /\ pc = "done"
  /\ Len(files) = 3
  /\ ~files[1].result.ok /\ ~files[3].result.ok
  /\ Len(ItemsOf(files[2].path)) = 2
  /\ Len(errors) = 2

\* C5: a file whose extraction succeeds with zero records gets exactly one
\* warning (no valid data), no error, contributes no record, and the step
\* that handles it leaves the duplicate-detection map as it was.
C5_EmptyFileState ==
  \A i \in FileIdx :
    (files[i].result.ok /\ Extracted(i) = << >>) =>
      LET p == files[i].path
      IN /\ WarningsOf(p) = <<Issue(p, EmptyFileMsg)>>
         /\ ErrorsOf(p) = << >>
         /\ ItemsOf(p) = << >>
         /\ \A k \in DOMAIN order_no_map : order_no_map[k] # p

C5_EmptyFileStep ==
  (/\ Len(files') = Len(files) + 1
   /\ files'[Len(files')].result.ok
   /\ files'[Len(files')].result.items = << >>)
    => /\ order_no_map' = order_no_map
       /\ errors' = errors
       /\ all_items' = all_items
       /\ warnings' =
            Append(warnings, Issue(files'[Len(files')].path, EmptyFileMsg))

C5_EmptyFile == [](C5_EmptyFileState) /\ [][C5_EmptyFileStep]_vars

\* An empty file was handled after a file that had entered the map.
C5_Witness ==
  /\ pc = "done"
  /\ Len(files) >= 2
  /\ files[2].result.ok /\ Extracted(2) = << >>
  /\ DOMAIN order_no_map # {}
  /\ WarningsOf(files[2].path) = <<Issue(files[2].path, EmptyFileMsg)>>

NoRepeat(seq) ==
  \A a, b \in 1..Len(seq) : a # b => seq[a] # seq[b]

\* C6: in the result neither the errors list nor the warnings list contains
\* two entries with the same file and the same message.
C6_IssuesDeduplicated ==
  pc = "done" => NoRepeat(errors) /\ NoRepeat(warnings)

\* C7: the returned warnings are strictly ascending in (file, message)
\* order, whatever the order in which they were raised.
C7_WarningsStrictlyAscending ==
  pc = "done" =>
    \A k \in 1..(Len(warnings) - 1) :
      IssueCmp(warnings[k], warnings[k + 1]) < 0

\* Three warnings were returned and the first file of the input, which
\* raised warnings, sorts behind the second, which raised warnings too.
C7_Witness ==
  /\ pc = "done"
  /\ Len(warnings) >= 3
  /\ Len(files) >= 2
  /\ StrCmp(PathChars(files[1].path), PathChars(files[2].path)) > 0
  /\ WarningsOf(files[1].path) # << >>
  /\ WarningsOf(files[2].path) # << >>

\* C8: every record that process_delivery_orders passes to
\* group_by_customer_month is a record validate_delivery_data accepts for
\* the same input files.
C8_GroupsOnlyAccepted ==
  pc = "grouped" =>
    \A k \in DOMAIN groups :
      \A n \in 1..Len(groups[k]) :
        groups[k][n] \in { all_items[m] : m \in 1..Len(all_items) }

\* --------------------------------------------------- extraction claims
ProductCol == ColOr(col_map, "product", DefaultProductCol)
QuantityCol == ColOr(col_map, "quantity", DefaultQuantityCol)

\* The first cell of row r carries a totals marker.
HasTotalsMarker(r) ==
  LET row == sheet[r + 1]
  IN /\ Len(row) > 0
     /\ \/ Contains(to_string(row[1]), TotalsTotal)
        \/ Contains(to_string(row[1]), TotalsSender)

\* Rows at or after data-start-row with no totals row up to and including
\* them: the rows the record extractor walks.
WalkedRows ==
  { r \in data_start_row..(Len(sheet) - 1) :
      \A q \in data_start_row..r : ~HasTotalsMarker(q) }

\* Row r has a product text and a quantity.
PassesGate(r) ==
  LET row == sheet[r + 1]
  IN /\ ProductCol < Len(row)
     /\ Trim(StripNewlinesQuotes(to_string(row[ProductCol + 1]))) # << >>
     /\ QuantityCol < Len(row)
     /\ extract_number(row[QuantityCol + 1]).some

RecordsFrom(r) == { i \in 1..Len(emitted_from) : emitted_from[i] = r }

\* C9: quantity gating: a row walked by the record extractor gives exactly
\* one record if its product text is non-empty after stripping and its
\* quantity column yields a number, and no record otherwise; rows that fail
\* do not stop the walk, and no record has an empty product name or lacks a
\* quantity.
C9_QuantityGating ==
  x_pc = "done" =>
    /\ Len(items) = Len(emitted_from)
    /\ \A r \in WalkedRows :
         Cardinality(RecordsFrom(r)) = IF PassesGate(r) THEN 1 ELSE 0
    /\ \A i \in 1..Len(items) :
         /\ items[i].product_name # << >>
         /\ DOMAIN items[i].quantity = {"n", "k"}

\* A row that fails the gate was walked and a later row gave a record.
C9_Witness ==
  /\ x_pc = "done"
  /\ \E r1, r2 \in WalkedRows :
       /\ r1 < r2
       /\ ~PassesGate(r1)
       /\ PassesGate(r2)
       /\ Cardinality(RecordsFrom(r2)) = 1

TotalsRows ==
  { r \in data_start_row..(Len(sheet) - 1) : HasTotalsMarker(r) }

\* C10: the walk stops at the first row at or after data-start-row whose
\* first cell carries a totals marker: every record comes from a row
\* strictly before it, and the walk ends there.
C10_StopsAtTotals ==
  x_pc \in {"walk", "done"} =>
    /\ \A i \in 1..Len(emitted_from) :
         /\ emitted_from[i] >= data_start_row
         /\ \A t \in TotalsRows : emitted_from[i] < t
    /\ \A t \in TotalsRows : row_idx <= t
    /\ (x_pc = "done" /\ TotalsRows # {}) => row_idx \in TotalsRows

\* The walk ended at a totals row, a record came from a row before it, and
\* a row behind it has a product and a quantity.
C10_Witness ==
  /\ x_pc = "done"
  /\ items # << >>
  /\ \E t \in TotalsRows :
       \E r \in (t + 1)..(Len(sheet) - 1) : PassesGate(r)

\* The header scan is over.
HeaderLocated == x_pc \in {"walk", "done"}

\* The rows the header scan looks at.
ScannedRows == { r \in 0..(HeaderScanRows - 1) : r < Len(sheet) }

AllLabels ==
  ProductLabels \cup SpecLabels \cup QuantityLabels \cup UnitLabels
    \cup PriceLabels \cup AmountLabels \cup OrderNoLabels

HasLabel(r, labels) ==
  \E c \in 1..Len(sheet[r + 1]) :
    ContainsAny(to_string(sheet[r + 1][c]), labels)

\* r is the first scanned row with a cell that contains one of the labels.
FirstWith(r, labels) ==
  /\ r \in ScannedRows
  /\ HasLabel(r, labels)
  /\ \A q \in ScannedRows : q < r => ~HasLabel(q, labels)

\* C11 as stated: the header row is the first row among rows 0..14 with a
\* cell that contains a label of any of the seven families, and data start
\* at the row after it.
C11_AnyLabelQualifies ==
  HeaderLocated =>
    \A r \in ScannedRows : FirstWith(r, AllLabels) => data_start_row = r + 1

\* C11 amended: the header row is the first row among rows 0..14 with a
\* cell that contains a product-name label, and data start at the row after
\* it; a row that carries labels of the other families only does not
\* qualify, and without a product-name label data start at row 8.
C11_ProductLabelQualifies ==
  HeaderLocated =>
    /\ \A r \in ScannedRows :
         FirstWith(r, ProductLabels) => data_start_row = r + 1
    /\ (\A r \in ScannedRows : ~HasLabel(r, ProductLabels))
         => data_start_row = DefaultDataStartRow

\* A row with a quantity label and no product label came before the row
\* with the product label, and the later row was taken as the header.
C11_Witness ==
  /\ HeaderLocated
  /\ \E r \in ScannedRows :
       /\ FirstWith(r, ProductLabels)
       /\ data_start_row = r + 1
       /\ \E q \in ScannedRows :
            q < r /\ HasLabel(q, QuantityLabels) /\ ~HasLabel(q, ProductLabels)

\* The families with a label in row r, and the first column of each.
FamiliesIn(r) ==
  { LabelFamily(to_string(sheet[r + 1][c])) : c \in 1..Len(sheet[r + 1]) }
    \ {"none"}

FirstColumnOf(r, fam) ==
  CHOOSE c \in 0..(Len(sheet[r + 1]) - 1) :
    /\ LabelFamily(to_string(sheet[r + 1][c + 1])) = fam
    /\ \A b \in 0..(c - 1) : LabelFamily(to_string(sheet[r + 1][b + 1])) # fam

\* C12: when several cells of the header row match the same label family,
\* the column recorded for the family is that of the first matching cell,
\* and a later matching cell never replaces it.
C12_FirstMatchWins ==
  HeaderLocated =>
    \A r \in ScannedRows :
      FirstWith(r, ProductLabels) =>
        \A fam \in FamiliesIn(r) :
          fam \in DOMAIN col_map /\ col_map[fam] = FirstColumnOf(r, fam)

\* C13: when no header row is selected within rows 0..14 and data start at
\* the default row 8, the columns are exactly the defaults product 0, spec
\* 2, quantity 4, unit 5, with price, amount and order number unassigned:
\* nothing seen in a row that was not selected is merged into the mapping.
C13_FallbackUsesDefaults ==
  (HeaderLocated /\ \A r \in ScannedRows : ~HasLabel(r, ProductLabels)) =>
    /\ data_start_row = DefaultDataStartRow
    /\ ColOr(col_map, "product", DefaultProductCol) = DefaultProductCol
    /\ ColOr(col_map, "spec", DefaultSpecCol) = DefaultSpecCol
    /\ ColOr(col_map, "quantity", DefaultQuantityCol) = DefaultQuantityCol
    /\ ColOr(col_map, "unit", DefaultUnitCol) = DefaultUnitCol
    /\ ~ColOpt(col_map, "price").some
    /\ ~ColOpt(col_map, "amount").some
    /\ ~ColOpt(col_map, "order_no").some

\* What a search takes from the cell at row r, column c when nothing was
\* found before; "" when it takes nothing.
CandidateAt(kind, r, c) ==
  CASE kind = "customer" -> CustomerCell(<< >>, sheet[r + 1], c)
    [] kind = "date" -> DateCell(<< >>, sheet[r + 1], c)
    [] kind = "delivery" -> DeliveryNoCell(<< >>, sheet[r + 1], c)
    [] kind = "order" -> HeaderOrderCell(<< >>, sheet[r + 1], c)

\* The cells of the rows below n, and row-major order on them.
CellsBelow(n) ==
  { p \in (0..(n - 1)) \X (0..(Len(BlankRow) - 1)) :
      p[1] < Len(sheet) /\ p[2] < Len(sheet[p[1] + 1]) }

RowMajorBefore(p, q) == p[1] < q[1] \/ (p[1] = q[1] /\ p[2] < q[2])

\* The first cell below row n that gives the search a value, by itself.
FirstMatch(kind, n) ==
  LET hits == { p \in CellsBelow(n) : CandidateAt(kind, p[1], p[2]) # << >> }
      first == CHOOSE p \in hits : \A q \in hits \ {p} : RowMajorBefore(p, q)
  IN IF hits = {} THEN << >> ELSE CandidateAt(kind, first[1], first[2])

\* Each value is what its own search finds first in the rows scanned so
\* far, whatever the other searches found; scan_idx never passes row 9.
C14_FirstMatchState ==
  /\ scan_idx <= MetaScanRows
  /\ customer_name = FirstMatch("customer", scan_idx)
  /\ date = FirstMatch("date", scan_idx)
  /\ delivery_order_no = FirstMatch("delivery", scan_idx)
  /\ x_pc \in {"meta", "header"}
       => header_order_no = FirstMatch("order", scan_idx)

\* A value that is set is never changed, and after the scan the customer
\* name, the date and the delivery order number are final.
C14_FirstMatchStep ==
  /\ customer_name # << >> => customer_name' = customer_name
  /\ date # << >> => date' = date
  /\ delivery_order_no # << >> => delivery_order_no' = delivery_order_no
  /\ header_order_no # << >> => header_order_no' = header_order_no
  /\ x_pc # "meta"
       => UNCHANGED <<customer_name, date, delivery_order_no>>

\* C14: in the row-major scan of rows 0..9 each of the four metadata values
\* is captured at most once: a value that is set to a non-empty string is
\* never changed by a later cell, each search finds its value independently
\* of the others, and rows 10 and beyond never contribute to the customer
\* name, the date or the delivery order number.
C14_MetadataFirstMatchWins ==
  [](C14_FirstMatchState) /\ [][C14_FirstMatchStep]_vars

\* The extraction is over; the customer name was taken from a cell that is
\* followed, within rows 0..9, by a cell offering a different name, a date
\* and a delivery order number were found, and a row beyond row 9 offers
\* yet another customer.
C14_Witness ==
  /\ x_pc = "done"
  /\ \E q \in CellsBelow(MetaScanRows) :
       /\ CandidateAt("customer", q[1], q[2]) # << >>
       /\ CandidateAt("customer", q[1], q[2]) # customer_name
  /\ delivery_order_no # << >>
  /\ \E r \in MetaScanRows..(Len(sheet) - 1) :
       \E c \in 0..(Len(sheet[r + 1]) - 1) :
         /\ CandidateAt("customer", r, c) # << >>
         /\ CandidateAt("customer", r, c) # customer_name
  /\ customer_name # << >>
  /\ date # << >>

\* The purchase orders written as "<order label>:<value>" in the cells of
\* row r.
EmbeddedOrders(r) ==
  { Trim(SplitOn(to_string(sheet[r + 1][c]), Colons, << >>)[2]) :
      c \in { b \in 1..Len(sheet[r + 1]) :
                /\ Contains(to_string(sheet[r + 1][b]), <<"U8BA2", "U5355", "U53F7">>)
                /\ Len(SplitOn(to_string(sheet[r + 1][b]), Colons, << >>)) > 1 } }
    \ {<< >>}

\* The trimmed text of the mapped order-number cell of row r, "" without one.
MappedOrderCell(r) ==
  IF "order_no" \in DOMAIN col_map /\ col_map["order_no"] < Len(sheet[r + 1])
  THEN Trim(to_string(sheet[r + 1][col_map["order_no"] + 1]))
  ELSE << >>

C15_ResyncStep ==
  /\ header_order_no # << >> => header_order_no' = header_order_no
  /\ (x_pc = "walk" /\ header_order_no' # header_order_no)
       => /\ header_order_no = << >>
          /\ header_order_no' \in EmbeddedOrders(row_idx)
  /\ Len(items') > Len(items)
       => items'[Len(items')].order_no =
            IF MappedOrderCell(row_idx) # << >> THEN MappedOrderCell(row_idx)
            ELSE header_order_no'

\* C15: in the row walk an order number found in a cell of a data row
\* becomes the header-level value only when the header-level value is
\* empty (or equal); once non-empty the header-level value is kept for the
\* rest of the file; a record whose mapped order-number cell is missing or
\* blank carries the header-level value current at its row.
C15_ResyncNeverReplaces == [][C15_ResyncStep]_vars

\* The walk is over with a header-level purchase order that an earlier
\* data row gave (rows 0..9 offer none); a record came from a row that names
\* a different purchase order and has a blank cell in the mapped
\* order-number column, and it carries the header-level one.
C15_Witness ==
  /\ x_pc = "done"
  /\ header_order_no # << >>
  /\ FirstMatch("order", MetaScanRows) = << >>
  /\ "order_no" \in DOMAIN col_map
  /\ \E i \in 1..Len(items) :
       /\ EmbeddedOrders(emitted_from[i]) # {}
       /\ header_order_no \notin EmbeddedOrders(emitted_from[i])
       /\ MappedOrderCell(emitted_from[i]) = << >>
       /\ items[i].order_no = header_order_no

\* generate_summary has returned.
Summarized == pc = "summarized"

\* The keys of the input, and the input records of one key.
InputKeys == { SummaryKey(merged[i]) : i \in 1..Len(merged) }

RECURSIVE SumOf(_, _, _)
SumOf(field, key, n) ==
  IF n = 0 THEN 0
  ELSE SumOf(field, key, n - 1)
         + (IF SummaryKey(merged[n]) = key
            THEN merged[n][field].n * Pow10(3 - merged[n][field].k) ELSE 0)

\* The value of an f64 of the model in thousandths.
Thousandths(f) == f.n * Pow10(3 - f.k)

\* h hundredths is amount / quantity (both in thousandths, quantity > 0)
\* rounded to 2 decimals, a half away from zero.
IsRounded(h, a, q) ==
  IF a >= 0
  THEN 200 * a - q < 2 * h * q /\ 2 * h * q <= 200 * a + q
  ELSE 200 * a - q <= 2 * h * q /\ 2 * h * q < 200 * a + q

\* C16: generate_summary returns exactly one row per (product name, spec,
\* unit) of the input; the row's quantity and amount are the sums over the
\* records of the key, and its average price is amount / quantity rounded
\* to 2 decimals when the quantity is above 0, and 0 otherwise.
C16_SummaryRows ==
  Summarized =>
    /\ { SummaryKey(summary[i]) : i \in 1..Len(summary) } = InputKeys
    /\ Len(summary) = Cardinality(InputKeys)
    /\ \A i \in 1..Len(summary) :
         LET row == summary[i]
             q == SumOf("quantity", SummaryKey(row), Len(merged))
             a == SumOf("amount", SummaryKey(row), Len(merged))
         IN /\ Thousandths(row.quantity) = q
            /\ Thousandths(row.amount) = a
            /\ row.average_price.k <= 2
            /\ IF q > 0
               THEN IsRounded(row.average_price.n
                                * Pow10(2 - row.average_price.k), a, q)
               ELSE row.average_price.n = 0

\* Quantities 10 and 5 with amounts 100 and 60 under one key gave the one
\* row 15, 160, 10.67.
C16_Witness ==
  /\ Summarized
  /\ Len(merged) = 2
  /\ Len(summary) = 1
  /\ { merged[1].quantity, merged[2].quantity } = { Num(10, 0), Num(5, 0) }
  /\ summary[1].quantity = Num(15, 0)
  /\ summary[1].amount = Num(160, 0)
  /\ summary[1].average_price = Num(1067, 2)

\* The index of the first input record of the key of a row.
FirstSeen(row) ==
  CHOOSE i \in 1..Len(merged) :
    /\ SummaryKey(merged[i]) = SummaryKey(row)
    /\ \A j \in 1..(i - 1) : SummaryKey(merged[j]) # SummaryKey(row)

\* C17: the list generate_summary returns is in descending order of
\* amount, and rows of equal amount stand in the order in which their keys
\* were first seen in the input.
C17_SortedTiesFirstSeen ==
  Summarized =>
    \A i, j \in 1..Len(summary) :
      i < j =>
        /\ Thousandths(summary[i].amount) >= Thousandths(summary[j].amount)
        /\ summary[i].amount = summary[j].amount
             => FirstSeen(summary[i]) < FirstSeen(summary[j])

\* -------------------------------------------------- grouping claims
GroupDone == pc = "group_done"

\* The date of a record as one of the formats of extract_year_month reads
\* it, None when none does.
ParsedDate(date_str) ==
  IF ParseAccepted(Chars(date_str)).some THEN ParseAccepted(Chars(date_str))
  ELSE ParseYMDHMS(Chars(date_str))

\* The positions of '-' in a text.
DashesOf(cs) == { i \in 1..Len(cs) : cs[i] = "-" }

\* The text before the second '-'.
BeforeSecondDash(cs) ==
  LET first == CHOOSE i \in DashesOf(cs) : \A j \in DashesOf(cs) : i <= j
      rest == DashesOf(cs) \ {first}
      second == CHOOSE i \in rest : \A j \in rest : i <= j
  IN SubSeq(cs, 1, second - 1)

\* C18 as stated: the year-month of a key is the YYYY-MM of the date of its
\* records, and the sentinel for every record whose date no format reads.
C18_YearMonthOrUnknown ==
  GroupDone =>
    \A key \in DOMAIN groups :
      \A n \in 1..Len(groups[key]) :
        key[2] = IF ParsedDate(groups[key][n].date).some
                 THEN FormatYearMonth(ParsedDate(groups[key][n].date).v)
                 ELSE Unknown

\* C18 amended: the year-month of a key is the year and two-digit month of
\* the date of its records when a format reads the date; otherwise it is
\* the text of the date before its second '-' when the date has two, and
\* the sentinel only when it has fewer than two.
C18_YearMonthPrefixOrUnknown ==
  GroupDone =>
    \A key \in DOMAIN groups :
      \A n \in 1..Len(groups[key]) :
        LET d == groups[key][n].date
        IN key[2] = IF ParsedDate(d).some THEN FormatYearMonth(ParsedDate(d).v)
                    ELSE IF Cardinality(DashesOf(Chars(d))) >= 2
                    THEN BeforeSecondDash(Chars(d))
                    ELSE Unknown

\* Buckets exist for a timestamp-suffixed date under "2024-03" and for the
\* date "2024-02-30", which no format reads, under "2024-02".
C18_Witness ==
  /\ GroupDone
  /\ \E key \in DOMAIN groups :
       /\ groups[key][1].date = "2024-03-15 08:00:00"
       /\ key[2] = <<"2", "0", "2", "4", "-", "0", "3">>
  /\ \E key \in DOMAIN groups :
       /\ groups[key][1].date = "2024-02-30"
       /\ key[2] = <<"2", "0", "2", "4", "-", "0", "2">>

\* The key of a record, and the records of a key in input order.
BucketKey(rec) == <<rec.customer, extract_year_month(rec.date)>>

RECURSIVE RecordsOfKey(_, _)
RecordsOfKey(key, n) ==
  IF n = 0 THEN << >>
  ELSE IF BucketKey(merged[n]) = key
  THEN Append(RecordsOfKey(key, n - 1), merged[n])
  ELSE RecordsOfKey(key, n - 1)

\* C19: the buckets partition the input: the keys are the keys of the
\* input records, no bucket is empty, and each bucket holds exactly the
\* input records of its key, unaltered and in input order.
C19_GroupsPartitionInput ==
  GroupDone =>
    /\ DOMAIN groups = { BucketKey(merged[i]) : i \in 1..Len(merged) }
    /\ \A key \in DOMAIN groups :
         /\ groups[key] # << >>
         /\ groups[key] = RecordsOfKey(key, Len(merged))

\* Two different records fell into one bucket, in input order.
C19_Witness ==
  /\ GroupDone
  /\ Len(merged) = 2
  /\ merged[1] # merged[2]
  /\ \E key \in DOMAIN groups : groups[key] = merged

\* ------------------------------------------------------ number claims
NumberDone == pc = "number_done"

\* The leading characters of a text that are digits, '.' or '-'.
NumberPrefix(t) ==
  LET stop == { i \in 1..Len(t) : t[i] \notin NumericChars \cup {".", "-"} }
      n == IF stop = {} THEN Len(t)
           ELSE (CHOOSE i \in stop : \A j \in stop : i <= j) - 1
  IN SubSeq(t, 1, n)

HasLeadingDigits(t) ==
  \E i \in 1..Len(NumberPrefix(t)) : NumberPrefix(t)[i] \in NumericChars

\* C20: extract_number on a text cell gives the value of the trimmed text
\* when the whole of it is a number; otherwise the number that its leading
\* run of digits, '.' and '-' denotes; and none only when the text has no
\* leading digits.
C20_ExtractNumber ==
  NumberDone =>
    LET t == Trim(number_text)
    IN /\ ParseF64(t).some => number = ParseF64(t)
       /\ (~ParseF64(t).some /\ number.some)
            => number = ParseF64(NumberPrefix(t))
       /\ ~number.some => ~HasLeadingDigits(t)

\* ---------------------------------------------- scan_and_validate claims
\* C21: valid_files = total_files - |errors| - |warnings| never goes below
\* zero: scan_and_validate returns a result, and in it
\* 0 <= valid_files <= total_files.
C21_ValidFilesInRange ==
  pc = "returned" =>
    /\ ~scan_result.v.panic
    /\ ~scan_result.v.valid_files.wrapped
    /\ scan_result.v.valid_files.v >= 0
    /\ scan_result.v.valid_files.v <= scan_result.v.total_files

\* ------------------------------------------------- order_no_map claims
\* The files of the input, in order, that carry the key.
FilesWithKey(key) == { i \in FileIdx : HasOrderNo(i) /\ KeyOf(i) = key }

EarliestWithKey(key) ==
  CHOOSE i \in FilesWithKey(key) : \A j \in FilesWithKey(key) : i <= j

SeenKeys == { KeyOf(i) : i \in { j \in FileIdx : HasOrderNo(j) } }

\* The map has exactly the keys met so far, each on the earliest file that
\* carries it, whatever that file's dates and whether it was accepted.
C22_EarliestFileState ==
  /\ DOMAIN order_no_map = SeenKeys
  /\ \A key \in SeenKeys :
       order_no_map[key] = files[EarliestWithKey(key)].path
  /\ \A i \in FileIdx :
       HasOrderNo(i) /\ EarliestWithKey(KeyOf(i)) < i =>
         \E n \in 1..Len(warnings) :
           /\ warnings[n].file = files[i].path
           /\ warnings[n].error =
                DuplicateMsg(KeyOf(i)[1], KeyOf(i)[2],
                             file_name(files[EarliestWithKey(KeyOf(i))].path))

\* An entry, once recorded, stays as it is.
C22_NeverOverwritten ==
  \A key \in DOMAIN order_no_map :
    key \in DOMAIN order_no_map' /\ order_no_map'[key] = order_no_map[key]

\* C22: order_no_map maps each (customer, delivery order number) key to the
\* earliest file of the input that has a record with that key and a
\* non-empty number, whether or not its date was valid and whether or not
\* the file was accepted; an entry is never overwritten, so a later file
\* gets the duplicate warning even when the first file was rejected.
C22_MapKeepsEarliestFile ==
  [](C22_EarliestFileState) /\ [][C22_NeverOverwritten]_vars

\* A file rejected for its date holds the key, and a later file with the
\* same key was warned against it.
C22_Witness ==
  /\ pc = "done"
  /\ \E i, j \in FileIdx :
       /\ i < j
       /\ HasOrderNo(i) /\ HasOrderNo(j) /\ KeyOf(i) = KeyOf(j)
       /\ ~DateValid(i)
       /\ ErrorsOf(files[i].path) # << >>
       /\ ItemsOf(files[i].path) = << >>
       /\ order_no_map[KeyOf(j)] = files[i].path
       /\ DuplicatesOf(files[j].path) # << >>

====
